---------------------------- MODULE Spec2Model ----------------------------
(***************************************************************************)
(* Geometry and connectivity core of recad_core: Pt quantisation (gr.rs),  *)
(* the Transform pipeline (math/transform.rs), pin placement (math/mod.rs) *)
(* and netlist extraction (netlist.rs).                                    *)
(*                                                                         *)
(* Numbers.  An f32 coordinate is modelled by the integer number of        *)
(* thousandths of a millimetre it holds (2.54 mm is 2540).  Angles are     *)
(* whole degrees, multiples of 90, for which the rotation matrix is taken  *)
(* with its exact entries 0, 1, -1.  Strings are TLA+ strings; a lib_id    *)
(* "power:+15V" is the pair <<"power", "+15V">> of the text before and     *)
(* after its first colon, so that starts_with("power:") is a test on the   *)
(* first component.                                                        *)
(***************************************************************************)
EXTENDS Integers, Sequences, FiniteSets, TLC

VARIABLES
    schema,          \* Schema: [items, library_symbols]
    npc,             \* "build" while items are added, "done" after Netlist::from
    wires,           \* from(): local `wires`
    positions,       \* from(): local `positions`
    node_positions,  \* Netlist.node_positions (final_positions)
    names,           \* Netlist.names
    pa, pb,          \* two Pt values under comparison
    ptres,           \* result of comparing them: [eq, ha, hb] once compared
    tr,              \* a Transform under construction: [to, rotate, mirror, scale]
    calls,           \* the builder calls made on tr, in call order
    tin,             \* the point handed to Transform::transform
    tout,            \* its result, <<>> before the first call
    at,              \* the At handed to Schema::get_pt
    resolved,        \* its outcome, <<>> before the call
    txt,             \* a text with its position and effects, handed to bbox::text
    trect,           \* its outcome, <<>> before the call
    outl,            \* the outcome of an outline() call: [of, r], <<>> before it
    from_stack,      \* from(): the seek_wire calls in progress, innermost last
    from_found,      \* from(): what the outermost seek_wire has found so far
    from_visited_wires,     \* from(): local `visited_wires`
    from_visited_positions, \* from(): local `visited_positions`
    from_pos,        \* from(): place of `for (pos, nodes) in positions.iter()`
    last_pos,        \* Schema.last_pos: the cursor of the drawers, an At
    drawn,           \* the move_to and draw calls made: [op, input, res]
    before_draw,     \* the Schema before the last of these calls, <<>> before the first
    content,         \* SexpIter.content, a sequence of characters
    chars,           \* SexpIter.chars: the place of the next character, from 1
    start_index,     \* SexpIter.start_index, a byte offset from 0
    int_state,       \* SexpIter.int_state
    last_char,       \* next(): local `last_char` of the loop over a quoted string
    tokens,          \* the items next() has returned so far
    xpc              \* where SexpIter is: "idle", "next", "quote", "spin", "end"

vars == <<schema, npc, wires, positions, node_positions, names,
          pa, pb, ptres, tr, calls, tin, tout, at, resolved, txt, trect, outl,
          from_stack, from_found, from_visited_wires, from_visited_positions,
          from_pos, last_pos, drawn, before_draw,
          content, chars, start_index, int_state, last_char, tokens, xpc>>

netVars == <<schema, npc, wires, positions, node_positions, names>>
ptVars == <<pa, pb, ptres>>
trVars == <<tr, calls, tin, tout>>
atVars == <<at, resolved>>
txtVars == <<txt, trect>>
boxVars == <<outl>>
seekVars == <<from_stack, from_found, from_visited_wires, from_visited_positions,
              from_pos>>
drawVars == <<last_pos, drawn, before_draw>>
sexpVars == <<content, chars, start_index, int_state, last_char, tokens, xpc>>
extVars == <<seekVars, drawVars, sexpVars>>

(***************************************************************************)
(* Option<T>: None is the empty tuple, Some(x) the one-element tuple.      *)
(***************************************************************************)
None == <<>>
Some(x) == <<x>>

Abs(n) == IF n < 0 THEN -n ELSE n

(***************************************************************************)
(* gr.rs: Pt, its equality and its hash                                    *)
(***************************************************************************)

\* format!("{:.2}", v): the sign of v, then |v| rounded to two decimals
\* (half to even on the decimal expansion).  A negative value that rounds
\* to zero keeps its sign: -0.001 renders as "-0.00".
Fmt2(v) ==
    LET m == Abs(v)
        lo == m \div 10
        r == m % 10
        q == IF r > 5 \/ (r = 5 /\ lo % 2 = 1) THEN lo + 1 ELSE lo
    IN  [neg |-> v < 0, int |-> q \div 100, frac |-> q % 100]

\* format!("{:.2}x{:.2}", self.x, self.y)
FmtPt(p) == <<Fmt2(p[1]), "x", Fmt2(p[2])>>

\* impl PartialEq for Pt
PtEq(a, b) == FmtPt(a) = FmtPt(b)

\* A faulty hash: the coordinates rendered with three decimals, "{:.3}x{:.3}".
PtHashThreeDecimals(a) ==
    <<[neg |-> a[1] < 0, int |-> Abs(a[1]) \div 1000, frac |-> Abs(a[1]) % 1000],
      "x",
      [neg |-> a[2] < 0, int |-> Abs(a[2]) \div 1000, frac |-> Abs(a[2]) % 1000]>>

\* impl Hash for Pt: the hasher is fed the rendered string, nothing else
PtHash(a) == FmtPt(a)

\* Vec<Pt>::contains
Contains(v, p) == \E i \in 1..Len(v) : PtEq(v[i], p)

(***************************************************************************)
(* IndexMap<Pt, V>: entries in insertion order; a key is found by Pt's     *)
(* equality and an entry keeps the key it was first inserted with.         *)
(***************************************************************************)
RECURSIVE IndexFrom(_, _, _)
IndexFrom(m, k, i) ==
    IF i > Len(m) THEN 0
    ELSE IF PtEq(m[i].k, k) THEN i ELSE IndexFrom(m, k, i + 1)

\* the index of the entry whose key equals k, 0 when there is none
IndexOf(m, k) == IndexFrom(m, k, 1)

\* IndexMap::get
MapGet(m, k) ==
    LET i == IndexOf(m, k)
    IN  IF i = 0 THEN None ELSE Some(m[i].v)

\* IndexMap::entry(k).or_default().push(x)
EntryPush(m, k, x) ==
    LET i == IndexOf(m, k)
    IN  IF i = 0
        THEN Append(m, [k |-> k, v |-> <<x>>])
        ELSE [m EXCEPT ![i].v = Append(@, x)]

\* IndexMap::insert
MapInsert(m, k, x) ==
    LET i == IndexOf(m, k)
    IN  IF i = 0
        THEN Append(m, [k |-> k, v |-> x])
        ELSE [m EXCEPT ![i].v = x]

(***************************************************************************)
(* math/transform.rs: Transform                                            *)
(***************************************************************************)

\* Transform::new
TransformNew == [to |-> <<0, 0>>, rotate |-> 0, mirror |-> None, scale |-> None]

\* A faulty rotation(): it also turns the offset configured so far, which
\* makes the result depend on the order of the builder calls.
RotationTurnsOffset(t, angle) ==
    [t EXCEPT !.rotate = angle,
              !.to = CASE angle % 360 = 0 -> @
                       [] angle % 360 = 90 -> <<@[2], -@[1]>>
                       [] angle % 360 = 180 -> <<-@[1], -@[2]>>
                       [] angle % 360 = 270 -> <<-@[2], @[1]>>]

\* Transform::rotation
Rotation(t, angle) == [t EXCEPT !.rotate = angle]

\* Transform::mirror
Mirror(t, axis) == [t EXCEPT !.mirror = axis]

\* Transform::translation
Translation(t, pt) == [t EXCEPT !.to = pt]

\* Transform::scale
Scale(t, s) == [t EXCEPT !.scale = Some(s)]

\* A faulty table: "no mirror" as the identity, without the flip of y.
MirrorNoFlip(axis) ==
    CASE axis = ""   -> <<<<1, 0>>, <<0, 1>>>>
      [] axis = "x"  -> <<<<1, 0>>, <<0, 1>>>>
      [] axis = "y"  -> <<<<-1, 0>>, <<0, -1>>>>
      [] axis = "xy" -> <<<<-1, 0>>, <<0, 1>>>>

\* The mirror matrices (lazy_static MIRROR), keyed by the axis string.
MIRROR(axis) ==
    CASE axis = ""   -> <<<<1, 0>>, <<0, -1>>>>
      [] axis = "x"  -> <<<<1, 0>>, <<0, 1>>>>
      [] axis = "y"  -> <<<<-1, 0>>, <<0, -1>>>>
      [] axis = "xy" -> <<<<-1, 0>>, <<0, 1>>>>

\* cos and sin of a whole multiple of 90 degrees
Cos(deg) ==
    CASE deg % 360 = 0 -> 1 [] deg % 360 = 90 -> 0
      [] deg % 360 = 180 -> -1 [] deg % 360 = 270 -> 0

Sin(deg) ==
    CASE deg % 360 = 0 -> 0 [] deg % 360 = 90 -> 1
      [] deg % 360 = 180 -> 0 [] deg % 360 = 270 -> -1

\* ndarray: points.dot(&m) for one row [x, y] and a 2x2 matrix m
Dot(p, m) == <<p[1] * m[1][1] + p[2] * m[2][1], p[1] * m[1][2] + p[2] * m[2][2]>>

\* Transform::transform applied to one point
Transform(t, p) ==
    LET scaled == IF t.scale # None
                  THEN Dot(p, <<<<t.scale[1], 0>>, <<0, -t.scale[1]>>>>)
                  ELSE p
        reflected == IF t.mirror # None
                     THEN Dot(scaled, MIRROR(t.mirror[1]))
                     ELSE Dot(scaled, MIRROR(""))
        rot == <<<<Cos(t.rotate), -Sin(t.rotate)>>, <<Sin(t.rotate), Cos(t.rotate)>>>>
        rotated == Dot(reflected, rot)
    IN  <<t.to[1] + rotated[1], t.to[2] + rotated[2]>>

\* math::pin_position
pin_position(symbol, pin) ==
    Transform(
        Rotation(
            Translation(Mirror(TransformNew, symbol.mirror),
                        <<symbol.pos.x, symbol.pos.y>>),
            symbol.pos.angle),
        <<pin.pos.x, pin.pos.y>>)

(***************************************************************************)
(* schema.rs / symbols.rs: the parts of Schema the extraction reads        *)
(***************************************************************************)

\* impl From<Pos> for Pt
PosToPt(pos) == <<pos.x, pos.y>>

\* A faulty test: the whole lib_id compared with the prefix.
StartsWithNothingAfter(lib_id, prefix) == lib_id[1] = prefix /\ lib_id[2] = ""

\* lib_id.starts_with(prefix + ":")
StartsWith(lib_id, prefix) == lib_id[1] = prefix

RECURSIVE Concat(_)
\* Iterator<String>::collect::<String>()
Concat(strs) == IF strs = <<>> THEN "" ELSE Head(strs) \o Concat(Tail(strs))

\* Symbol::property: the values of all properties with that key, concatenated
Property(symbol, key) ==
    Concat([i \in 1..Len(symbol.props) |->
              IF symbol.props[i].key = key THEN symbol.props[i].value ELSE ""])

\* Schema::library_symbol: the first library symbol with that lib_id
LibrarySymbol(s, lib_id) ==
    LET hits == SelectSeq(s.library_symbols, LAMBDA l : l.lib_id = lib_id)
    IN  IF hits = <<>> THEN None ELSE Some(Head(hits))

RECURSIVE PinsOfUnits(_, _)
PinsOfUnits(units, unit) ==
    IF units = <<>> THEN <<>>
    ELSE (IF Head(units).unit = 0 \/ Head(units).unit = unit
          THEN Head(units).pins ELSE <<>>)
         \o PinsOfUnits(Tail(units), unit)

\* LibrarySymbol::pins: the pins of the sub-units numbered 0 or `unit`
Pins(l, unit) == PinsOfUnits(l.units, unit)

(***************************************************************************)
(* netlist.rs: Netlist                                                     *)
(***************************************************************************)

RECURSIVE PushPins(_, _, _, _)
\* collect_points, the loop over l.pins(symbol.unit).  A node borrows the
\* placed symbol (&'a Symbol): `item` is the place of that symbol in
\* schema.items, `symbol` what is found there.
PushPins(acc, i, symbol, pins) ==
    IF pins = <<>> THEN acc
    ELSE LET pin_pos == pin_position(symbol, Head(pins))
         IN  PushPins(
                 EntryPush(acc, pin_pos,
                           [kind |-> "Pin", pt |-> pin_pos, pin |-> Head(pins),
                            symbol |-> symbol, item |-> i]),
                 i, symbol, Tail(pins))

\* collect_points, one iteration of the loop over schema.items
CollectItem(s, acc, i) ==
    LET item == s.items[i]
    IN  CASE item.type = "Symbol" ->
                IF StartsWith(item.lib_id, "Mechanical") THEN acc
                ELSE LET l == LibrarySymbol(s, item.lib_id)
                     IN  IF l = None THEN acc
                         ELSE PushPins(acc, i, item, Pins(l[1], item.unit))
          [] item.type = "NoConnect" ->
                EntryPush(acc, PosToPt(item.pos),
                          [kind |-> "NoConnect", pt |-> PosToPt(item.pos)])
          [] item.type = "Junction" ->
                EntryPush(acc, PosToPt(item.pos),
                          [kind |-> "Junction", pt |-> PosToPt(item.pos)])
          [] item.type = "LocalLabel" ->
                EntryPush(acc, PosToPt(item.pos),
                          [kind |-> "Label", pt |-> PosToPt(item.pos),
                           label |-> item, item |-> i])
          [] item.type = "GlobalLabel" ->
                EntryPush(acc, PosToPt(item.pos),
                          [kind |-> "GlobalLabel", pt |-> PosToPt(item.pos),
                           label |-> item, item |-> i])
          [] OTHER -> acc

RECURSIVE CollectLoop(_, _, _)
CollectLoop(s, acc, i) ==
    IF i > Len(s.items) THEN acc
    ELSE CollectLoop(s, CollectItem(s, acc, i), i + 1)

\* Netlist::collect_points
collect_points(s) == CollectLoop(s, <<>>, 1)

\* A faulty closure: only the entry from pt0 to pt1 is made.
WireEntryOneWay(acc, w) == EntryPush(acc, w.pts[1], w.pts[2])

\* Netlist::wires, the closure run for one Wire: both directions are entered
WireEntry(acc, w) ==
    LET pt0 == w.pts[1]
        pt1 == w.pts[2]
    IN  EntryPush(EntryPush(acc, pt0, pt1), pt1, pt0)

RECURSIVE WiresLoop(_, _, _)
WiresLoop(s, acc, i) ==
    IF i > Len(s.items) THEN acc
    ELSE WiresLoop(s,
                   IF s.items[i].type = "Wire" THEN WireEntry(acc, s.items[i]) ELSE acc,
                   i + 1)

\* Netlist::wires
Wires(s) == WiresLoop(s, <<>>, 1)

\* A faulty get_wire: pt is not recorded as visited.
GetWireNoMark(pt, ws, visited) ==
    LET w == MapGet(ws, pt)
    IN  [visited |-> visited,
         wire |-> IF w = None THEN None
                  ELSE Some(SelectSeq(w[1], LAMBDA point : ~Contains(visited, point)))]

\* Netlist::get_wire: pt is pushed to visited, then the neighbours of pt not
\* yet visited are returned (None when pt is no wire end).
get_wire(pt, ws, visited) ==
    LET v == Append(visited, pt)
        w == MapGet(ws, pt)
    IN  [visited |-> v,
         wire |-> IF w = None THEN None
                  ELSE Some(SelectSeq(w[1], LAMBDA point : ~Contains(v, point)))]

\* A faulty seek_wire: the direct neighbours only, without following them.
SeekDirect(pt, ws, visited) ==
    LET g == get_wire(pt, ws, visited)
    IN  [found |-> IF g.wire = None THEN <<>> ELSE g.wire[1],
         visited |-> IF g.wire = None THEN g.visited ELSE g.visited \o g.wire[1]]

RECURSIVE seek_wire(_, _, _)
RECURSIVE SeekLoop(_, _, _, _)
\* Netlist::seek_wire, the loop `for wire in wire` over the list get_wire
\* returned: the list is not filtered again while the loop runs.
SeekLoop(todo, ws, visited, found) ==
    IF todo = <<>> THEN [found |-> found, visited |-> visited]
    ELSE LET r == seek_wire(Head(todo), ws, visited)
         IN  SeekLoop(Tail(todo), ws, r.visited,
                      (found \o <<Head(todo)>>) \o r.found)

\* Netlist::seek_wire: [found, visited]
seek_wire(pt, ws, visited) ==
    LET g == get_wire(pt, ws, visited)
    IN  IF g.wire = None
        THEN [found |-> <<>>, visited |-> g.visited]
        ELSE SeekLoop(g.wire[1], ws, g.visited, <<>>)

RECURSIVE MergeFound(_, _, _, _)
\* Netlist::from, the loop over the points seek_wire found
MergeFound(found, pos_map, new_nodes, visited_positions) ==
    IF found = <<>>
    THEN [new_nodes |-> new_nodes, visited_positions |-> visited_positions]
    ELSE LET other == MapGet(pos_map, Head(found))
         IN  IF other # None
             THEN MergeFound(Tail(found), pos_map, new_nodes \o other[1],
                             Append(visited_positions, Head(found)))
             ELSE MergeFound(Tail(found), pos_map, new_nodes, visited_positions)

RECURSIVE FromLoop(_, _, _, _, _, _)
\* Netlist::from, the loop over positions
FromLoop(i, pos_map, ws, final_positions, visited_positions, visited_wires) ==
    IF i > Len(pos_map) THEN final_positions
    ELSE LET pos == pos_map[i].k
             nodes == pos_map[i].v
         IN  IF ~Contains(visited_positions, pos)
             THEN LET r == seek_wire(pos, ws, visited_wires)
                      m == MergeFound(r.found, pos_map, nodes,
                                      Append(visited_positions, pos))
                  IN  FromLoop(i + 1, pos_map, ws,
                               MapInsert(final_positions, pos, m.new_nodes),
                               m.visited_positions, r.visited)
             ELSE FromLoop(i + 1, pos_map, ws, final_positions,
                           visited_positions, visited_wires)

\* Netlist::from up to final_positions
FinalPositions(pos_map, ws) == FromLoop(1, pos_map, ws, <<>>, <<>>, <<>>)

\* A faulty iteration: a label is recorded as a position but never as the name.
NameItemIgnoringLabels(acc, item) ==
    CASE item.kind = "Pin" ->
            IF StartsWith(item.symbol.lib_id, "power")
            THEN [acc EXCEPT !.positions = Append(@, item.pt),
                             !.label = Some(Property(item.symbol, "Value"))]
            ELSE [acc EXCEPT !.positions = Append(@, item.pt),
                             !.first = FALSE,
                             !.name = (((@ \o (IF acc.first THEN "" ELSE "__"))
                                        \o Property(item.symbol, "Reference"))
                                       \o "_") \o item.pin.number]
      [] OTHER -> [acc EXCEPT !.positions = Append(@, item.pt)]

\* generate_names, one iteration of `for item in items.iter()`
NameItem(acc, item) ==
    CASE item.kind = "Pin" ->
            IF StartsWith(item.symbol.lib_id, "power")
            THEN [acc EXCEPT !.positions = Append(@, item.pt),
                             !.label = Some(Property(item.symbol, "Value"))]
            ELSE IF acc.first
            THEN [acc EXCEPT !.positions = Append(@, item.pt),
                             !.first = FALSE,
                             !.name = ((@ \o Property(item.symbol, "Reference"))
                                       \o "_") \o item.pin.number]
            ELSE [acc EXCEPT !.positions = Append(@, item.pt),
                             !.name = (((@ \o "__")
                                        \o Property(item.symbol, "Reference"))
                                       \o "_") \o item.pin.number]
      [] item.kind \in {"Label", "GlobalLabel"} ->
            [acc EXCEPT !.positions = Append(@, item.pt),
                        !.label = Some(item.label.text)]
      [] item.kind \in {"NoConnect", "Junction"} ->
            [acc EXCEPT !.positions = Append(@, item.pt)]

RECURSIVE NameItems(_, _)
NameItems(acc, items) ==
    IF items = <<>> THEN acc ELSE NameItems(NameItem(acc, Head(items)), Tail(items))

\* A faulty insertion: the name is recorded against the group's key only.
InsertKeyOnly(acc, pts, name) == MapInsert(acc, Head(pts), name)

RECURSIVE InsertAll(_, _, _)
\* generate_names: names.insert(*pos, ...) for every pos of the group
InsertAll(acc, pts, name) ==
    IF pts = <<>> THEN acc
    ELSE InsertAll(MapInsert(acc, Head(pts), name), Tail(pts), name)

RECURSIVE generate_names_loop(_, _, _)
generate_names_loop(results, acc, i) ==
    IF i > Len(results) THEN acc
    ELSE LET g == NameItems([name |-> "", label |-> None,
                             positions |-> <<results[i].k>>, first |-> TRUE],
                            results[i].v)
         IN  generate_names_loop(
                 results,
                 InsertAll(acc, g.positions,
                           IF g.label # None THEN g.label[1] ELSE g.name),
                 i + 1)

\* Netlist::generate_names
generate_names(results) == generate_names_loop(results, <<>>, 1)

\* Netlist::netname, on a names map
netname(nm, pt) == MapGet(nm, pt)

(***************************************************************************)
(* Outcomes of a call: a value returned, an Err(..) returned, or a panic   *)
(* (unwrap on None, panic!, todo!) that aborts the call.                   *)
(***************************************************************************)
Returned(v) == [res |-> "value", val |-> v]
Ok(v) == [res |-> "Ok", val |-> v]
Err(e) == [res |-> "Err", err |-> e]
Panic(m) == [res |-> "panic", msg |-> m]

(***************************************************************************)
(* symbols.rs, schema.rs, schema_ploter.rs: resolving an At to a Pt        *)
(***************************************************************************)

RECURSIVE PinInUnits(_, _)
\* the loops of LibrarySymbol::pin and ::pin_unit: the first pin with that
\* number, sub-unit by sub-unit, with the sub-unit it was found in
PinInUnits(units, number) ==
    IF units = <<>> THEN None
    ELSE LET hits == SelectSeq(Head(units).pins, LAMBDA q : q.number = number)
         IN  IF hits # <<>> THEN Some([pin |-> Head(hits), unit |-> Head(units).unit])
             ELSE PinInUnits(Tail(units), number)

\* LibrarySymbol::pin
lib_pin(l, number) ==
    LET f == PinInUnits(l.units, number)
    IN  IF f = None THEN None ELSE Some(f[1].pin)

\* LibrarySymbol::pin_unit
lib_pin_unit(l, number) ==
    LET f == PinInUnits(l.units, number)
    IN  IF f = None THEN None ELSE Some(f[1].unit)

\* A faulty lookup: the first placed symbol with that reference, whatever
\* its unit.
SymbolAnyUnit(s, reference, unit) ==
    LET hits == SelectSeq(s.items,
                    LAMBDA it : it.type = "Symbol"
                                /\ reference = Property(it, "Reference"))
    IN  IF hits = <<>> THEN None ELSE Some(Head(hits))

\* Schema::symbol: the first placed symbol with that reference and unit
schema_symbol(s, reference, unit) ==
    LET hits == SelectSeq(s.items,
                    LAMBDA it : it.type = "Symbol" /\ unit = it.unit
                                /\ reference = Property(it, "Reference"))
    IN  IF hits = <<>> THEN None ELSE Some(Head(hits))

\* Schema::pin_unit, the closure of filter_map for one item
PinUnitOfItem(s, it, reference, number) ==
    IF it.type = "Symbol" /\ reference = Property(it, "Reference")
    THEN LET lib == LibrarySymbol(s, it.lib_id)
         IN  IF lib # None THEN lib_pin_unit(lib[1], number) ELSE None
    ELSE None

\* Schema::pin_unit: the first unit the closure yields
schema_pin_unit(s, reference, number) ==
    LET hits == SelectSeq(s.items,
                    LAMBDA it : PinUnitOfItem(s, it, reference, number) # None)
    IN  IF hits = <<>> THEN None
        ELSE PinUnitOfItem(s, Head(hits), reference, number)

\* Plot::get_pt for Schema: every ok_or(Error(..)) is unwrapped on the spot
get_pt(s, a) ==
    CASE a.kind = "Pt" -> Returned(a.pt)
      [] a.kind = "Pin" ->
            LET unit == schema_pin_unit(s, a.reference, a.pin)
            IN  IF unit = None THEN Panic("pin unit not found")
                ELSE LET symbol == schema_symbol(s, a.reference, unit[1])
                     IN  IF symbol = None THEN Panic("symbol unit not found")
                         ELSE LET lib == LibrarySymbol(s, symbol[1].lib_id)
                              IN  IF lib = None THEN Panic("symbol unit not found")
                                  ELSE LET pin == lib_pin(lib[1], a.pin)
                                       IN  IF pin = None THEN Panic("pin not found")
                                           ELSE Returned(pin_position(symbol[1], pin[1]))
      [] a.kind = "Dot" -> Panic("not yet implemented")

(***************************************************************************)
(* math/fonts.rs: measuring a text.  The font files and the glyph layout   *)
(* are outside the program: a face is installed, missing or unreadable,    *)
(* and a glyph is taken to be half as wide as the font is high, in whole   *)
(* pixels.                                                                 *)
(***************************************************************************)

\* fonts::get_face
get_face(effects) == IF effects.face # None THEN effects.face[1] ELSE "osifont"

\* fonts::load_font: the built-in face always loads; another face loads
\* when fontconfig finds it and fontdue reads it
load_font(face) ==
    CASE face = "osifont" -> Ok("font")
      [] face = "Arial" -> Ok("font")
      [] face = "Broken" -> Panic("Font::from_bytes")
      [] OTHER -> Err("font-error")

\* effects.font.size.0 * 1.333333
PxSize(effects) == (effects.size * 1333333 + 500000) \div 1000000

\* layout.glyphs().iter().map(|g| g.width).sum(): whole pixels
GlyphsWidth(str, effects) == Len(str) * ((PxSize(effects) + 1000) \div 2000)

\* fonts::dimension: [[width, height]]
dimension(str, effects) ==
    LET f == load_font(get_face(effects))
    IN  IF f.res # "Ok" THEN f
        ELSE Ok(<<1000 * GlyphsWidth(str, effects), PxSize(effects)>>)

(***************************************************************************)
(* math/bbox.rs: outlines.  A Rect is [start, end].                        *)
(***************************************************************************)
Rect(start, end) == [start |-> start, end |-> end]

\* v / 2.0
Half(v) == v \div 2

SeqMin(ns) == CHOOSE n \in {ns[i] : i \in DOMAIN ns} : \A i \in DOMAIN ns : n <= ns[i]
SeqMax(ns) == CHOOSE n \in {ns[i] : i \in DOMAIN ns} : \A i \in DOMAIN ns : n >= ns[i]

\* bbox::calculate: Rect::default() for no points, else min and max per axis
calculate(pts) ==
    IF pts = <<>> THEN Rect(<<0, 0>>, <<0, 0>>)
    ELSE LET axis1 == [i \in DOMAIN pts |-> pts[i][1]]
             axis2 == [i \in DOMAIN pts |-> pts[i][2]]
         IN  Rect(<<SeqMin(axis1), SeqMin(axis2)>>, <<SeqMax(axis1), SeqMax(axis2)>>)

\* bbox::text, the start point for a supported angle; the branches for 0, 90
\* and 270 degrees are the same
TextStart(pos, justify, dim) ==
    IF pos.angle = 180
    THEN << IF "Right" \in justify THEN pos.x
            ELSE IF "Left" \in justify THEN pos.x - dim[1]
            ELSE pos.x - Half(dim[1]),
            IF "Top" \in justify THEN pos.y + dim[2]
            ELSE IF "Bottom" \in justify THEN pos.y
            ELSE pos.y - Half(dim[2]) >>
    ELSE << IF "Right" \in justify THEN pos.x - dim[1]
            ELSE IF "Left" \in justify THEN pos.x
            ELSE pos.x - Half(dim[1]),
            IF "Top" \in justify THEN pos.y
            ELSE IF "Bottom" \in justify THEN pos.y - dim[2]
            ELSE pos.y - Half(dim[2]) >>

\* A faulty rectangle: always built forward from start by the signed
\* dimensions.
TextRectForward(start, dim) ==
    Rect(start, <<start[1] + dim[1], start[2] + dim[2]>>)

\* bbox::text, the Rect built from start: backward when a dimension is negative
TextRect(start, dim) ==
    IF dim[1] < 0 \/ dim[2] < 0
    THEN Rect(<<start[1] - Abs(dim[1]), start[2] - Abs(dim[2])>>, start)
    ELSE Rect(start, <<start[1] + Abs(dim[1]), start[2] + Abs(dim[2])>>)

\* A faulty text(): an angle it does not know is laid out like 0 degrees.
TextAnyAngle(str, pos, effects) ==
    LET d == dimension(str, effects)
    IN  IF d.res # "Ok" THEN d
        ELSE LET dim == IF pos.angle = 180
                        THEN Transform(Rotation(TransformNew, pos.angle), d.val)
                        ELSE d.val
             IN  Ok(TextRect(TextStart(pos, effects.justify, dim), dim))

\* bbox::text
text(str, pos, effects) ==
    LET d == dimension(str, effects)
    IN  IF d.res # "Ok" THEN d
        ELSE IF pos.angle \notin {0, 90, 180, 270} THEN Panic("unsupported angle")
        ELSE LET dim == IF pos.angle = 180
                        THEN Transform(Rotation(TransformNew, pos.angle), d.val)
                        ELSE d.val
             IN  Ok(TextRect(TextStart(pos, effects.justify, dim), dim))

\* sexp::constants::el::JUNCTION_DIAMETER and ::NO_CONNECT_SIZE
JUNCTION_DIAMETER == 900
NO_CONNECT_SIZE == 600

\* the points a graphic primitive of a library symbol adds to the outline of
\* the placed symbol; arcs, curves and texts add none
GraphicPts(g) ==
    CASE g.type = "Circle" ->
            << <<g.center[1] - g.radius, g.center[2] - g.radius>>,
               <<g.center[1] + g.radius, g.center[2] + g.radius>> >>
      [] g.type \in {"Line", "Polyline"} -> g.pts
      [] g.type = "Rectangle" -> <<g.start, g.end>>
      [] OTHER -> <<>>

RECURSIVE GraphicsPts(_)
GraphicsPts(graphics) ==
    IF graphics = <<>> THEN <<>>
    ELSE GraphicPts(Head(graphics)) \o GraphicsPts(Tail(graphics))

RECURSIVE UnitsPtsAllUnits(_, _)
\* A faulty loop: the graphics of every sub-unit, whatever its unit.
UnitsPtsAllUnits(units, unit) ==
    IF units = <<>> THEN <<>>
    ELSE GraphicsPts(Head(units).graphics) \o UnitsPtsAllUnits(Tail(units), unit)

RECURSIVE UnitsPts(_, _)
\* impl Bbox for Symbol, the loop over lib_symbol.units: the local points
\* of the graphics of the sub-units numbered 0 or `unit`
UnitsPts(units, unit) ==
    IF units = <<>> THEN <<>>
    ELSE (IF Head(units).unit = 0 \/ Head(units).unit = unit
          THEN GraphicsPts(Head(units).graphics) ELSE <<>>)
         \o UnitsPts(Tail(units), unit)

\* impl Bbox for Symbol
symbol_outline(symbol, s) ==
    LET lib_symbol == LibrarySymbol(s, symbol.lib_id)
    IN  IF lib_symbol = None THEN Panic("unwrap on None")
        ELSE LET transform ==
                     Mirror(Rotation(Translation(TransformNew,
                                                 <<symbol.pos.x, symbol.pos.y>>),
                                     symbol.pos.angle),
                            symbol.mirror)
                 local == UnitsPts(lib_symbol[1].units, symbol.unit)
                 pins == Pins(lib_symbol[1], symbol.unit)
             IN  Ok(calculate(
                     [i \in DOMAIN local |-> Transform(transform, local[i])]
                     \o [i \in DOMAIN pins |-> pin_position(symbol, pins[i])]))

\* impl Bbox for Junction, NoConnect, LocalLabel, GlobalLabel, Text, Wire
\* and Symbol
outline(item, s) ==
    CASE item.type = "Junction" ->
            LET d == IF item.diameter = 0 THEN Half(JUNCTION_DIAMETER)
                     ELSE Half(item.diameter)
            IN  Ok(Rect(<<item.pos.x - d, item.pos.y - d>>,
                        <<item.pos.x + d, item.pos.y + d>>))
      [] item.type = "NoConnect" ->
            Ok(Rect(<<item.pos.x - NO_CONNECT_SIZE, item.pos.y - NO_CONNECT_SIZE>>,
                    <<item.pos.x + NO_CONNECT_SIZE, item.pos.y + NO_CONNECT_SIZE>>))
      [] item.type \in {"LocalLabel", "GlobalLabel", "Text"} ->
            text(item.text, item.pos, item.effects)
      [] item.type = "Wire" -> Ok(Rect(item.pts[1], item.pts[2]))
      [] item.type = "Symbol" -> symbol_outline(item, s)

\* impl Bbox for Property
property_outline(prop, s) == text(prop.value, prop.pos, prop.effects)

\* Property::visible
visible(prop) == ~prop.effects.hide

RECURSIVE PropsLoop(_, _, _)
\* Schema::outline, the loop over symbol.props: the first failure ends it
PropsLoop(s, props, pts) ==
    IF props = <<>> THEN Ok(pts)
    ELSE IF visible(Head(props))
         THEN LET bound == property_outline(Head(props), s)
              IN  IF bound.res # "Ok" THEN bound
                  ELSE PropsLoop(s, Tail(props),
                                 pts \o <<bound.val.start, bound.val.end>>)
         ELSE PropsLoop(s, Tail(props), pts)

RECURSIVE OutlineLoop(_, _, _)
\* Schema::outline, the loop over self.items; the arm `_ => {}` takes every
\* item that is not a junction, no-connect, wire, label or symbol
OutlineLoop(s, pts, i) ==
    IF i > Len(s.items) THEN Ok(calculate(pts))
    ELSE LET item == s.items[i]
         IN  IF item.type \in {"Junction", "NoConnect", "Wire", "LocalLabel",
                               "GlobalLabel"}
             THEN LET bound == outline(item, s)
                  IN  IF bound.res # "Ok" THEN bound
                      ELSE OutlineLoop(s, pts \o <<bound.val.start, bound.val.end>>,
                                       i + 1)
             ELSE IF item.type = "Symbol"
             THEN LET bound == outline(item, s)
                  IN  IF bound.res # "Ok" THEN bound
                      ELSE LET more == PropsLoop(s, item.props,
                                           pts \o <<bound.val.start, bound.val.end>>)
                           IN  IF more.res # "Ok" THEN more
                               ELSE OutlineLoop(s, more.val, i + 1)
             ELSE OutlineLoop(s, pts, i + 1)

\* Schema::outline
schema_outline(s) == OutlineLoop(s, <<>>, 1)

(***************************************************************************)
(* The schemas explored: a fixed symbol library and a list of items grown  *)
(* one item at a time from ItemChoices, in every order.                    *)
(***************************************************************************)

\* Bounds
MaxItems == 4
MaxCoord == 8
MaxCalls == 4
MaxPlaced == 3

Pos(x, y, angle) == [x |-> x, y |-> y, angle |-> angle]

LibPin(number, x, y, angle) == [number |-> number, pos |-> Pos(x, y, angle)]

\* Device:R has its two pins on the local y axis, 3.81 mm from the origin.
Library ==
    << [lib_id |-> <<"Device", "R">>,
        units |-> << [unit |-> 0, pins |-> <<>>],
                     [unit |-> 1, pins |-> << LibPin("1", 0, 3810, 270),
                                              LibPin("2", 0, -3810, 90) >>] >>],
       [lib_id |-> <<"power", "+15V">>,
        units |-> << [unit |-> 0, pins |-> <<>>],
                     [unit |-> 1, pins |-> << LibPin("1", 0, 0, 90) >>] >>],
       [lib_id |-> <<"Mechanical", "MountingHole_Pad">>,
        units |-> << [unit |-> 0, pins |-> <<>>],
                     [unit |-> 1, pins |-> << LibPin("1", 0, 0, 270) >>] >>] >>

\* Symbol::new, then placed: Value first, Reference second in props
SymbolItem(reference, value, lib_id, pos) ==
    [type |-> "Symbol", lib_id |-> lib_id, pos |-> pos, mirror |-> None,
     unit |-> 1,
     props |-> << [key |-> "Value", value |-> value],
                  [key |-> "Reference", value |-> reference] >>]

WireItem(a, b) == [type |-> "Wire", pts |-> <<a, b>>]

\* Four corners of a square; P3n renders like P3 ("107.62x50.00").
P1 == <<100000, 50000>>
P2 == <<100000, 57620>>
P3 == <<107620, 50000>>
P3n == <<107622, 50001>>
P4 == <<107620, 57620>>

\* R1 has pin 1 on P1 and pin 2 on P2; R2 (rotated) pin 1 on P1, pin 2 on P3;
\* the power symbol has its pin on P4.  The three wires close the triangle
\* P2, P4, P3; adding one of them twice gives parallel wires.
ItemChoices ==
    { SymbolItem("R1", "10k", <<"Device", "R">>, Pos(100000, 53810, 0)),
      SymbolItem("R2", "1k", <<"Device", "R">>, Pos(103810, 50000, 90)),
      SymbolItem("#PWR01", "+15V", <<"power", "+15V">>, Pos(107620, 57620, 0)),
      WireItem(P2, P4),
      WireItem(P4, P3n),
      WireItem(P3, P2),
      [type |-> "LocalLabel", text |-> "OUT", pos |-> Pos(107620, 50000, 0)],
      [type |-> "GlobalLabel", text |-> "VCC", pos |-> Pos(107620, 57620, 180)],
      [type |-> "NoConnect", pos |-> Pos(100000, 57620, 0)] }

(***************************************************************************)
(* Netlist extraction as a state machine                                   *)
(***************************************************************************)
PtIdle == pa = <<0, 0>> /\ pb = <<0, 0>> /\ ptres = None
TrIdle == tr = TransformNew /\ calls = <<>> /\ tin = <<0, 0>> /\ tout = None
\* At::default() is At::Pt(Pt { x: 0.0, y: 0.0 })
AtIdle == at = [kind |-> "Pt", pt |-> <<0, 0>>] /\ resolved = None
TxtIdle == txt = None /\ trect = None
BoxIdle == outl = None
SeekIdle ==
    /\ from_stack = <<>> /\ from_found = <<>>
    /\ from_visited_wires = <<>> /\ from_visited_positions = <<>> /\ from_pos = 1
\* Schema::new: last_pos is At::Pt(Pt { x: 0.0, y: 0.0 })
DrawIdle ==
    /\ last_pos = [kind |-> "Pt", pt |-> <<0, 0>>]
    /\ drawn = <<>> /\ before_draw = <<>>
\* SexpIter::new on an empty string
SexpIdle ==
    /\ content = <<>> /\ chars = 1 /\ start_index = 0
    /\ int_state = "NotStarted" /\ last_char = "" /\ tokens = <<>> /\ xpc = "idle"
ExtIdle == SeekIdle /\ DrawIdle /\ SexpIdle
GeoIdle == AtIdle /\ TxtIdle /\ BoxIdle /\ ExtIdle
NetIdle ==
    /\ schema = [items |-> <<>>, library_symbols |-> Library]
    /\ npc = "build"
    /\ wires = <<>> /\ positions = <<>> /\ node_positions = <<>> /\ names = <<>>

InitNet == NetIdle /\ PtIdle /\ TrIdle /\ GeoIdle

\* schema.items.push(item)
AddItem ==
    /\ npc = "build"
    /\ Len(schema.items) < MaxItems
    /\ \E item \in ItemChoices : schema' = [schema EXCEPT !.items = Append(@, item)]
    /\ UNCHANGED <<npc, wires, positions, node_positions, names, ptVars, trVars,
                   atVars, txtVars, boxVars, extVars>>

\* Netlist::from(&schema)
From ==
    /\ npc = "build"
    /\ npc' = "done"
    /\ LET ws == Wires(schema)
           pos_map == collect_points(schema)
           final_positions == FinalPositions(pos_map, ws)
       IN  /\ wires' = ws
           /\ positions' = pos_map
           /\ node_positions' = final_positions
           /\ names' = generate_names(final_positions)
    /\ UNCHANGED <<schema, ptVars, trVars, atVars, txtVars, boxVars, extVars>>

NextNet == AddItem \/ From

SpecNet == InitNet /\ [][NextNet]_vars

(***************************************************************************)
(* Pt comparison as a state machine                                        *)
(***************************************************************************)

\* No f32 lies exactly on a decimal tie x.xx5, so those are left out.
Coords == {v \in (-MaxCoord)..MaxCoord : Abs(v) % 10 # 5}

InitPt ==
    /\ pa \in Coords \X Coords
    /\ pb \in Coords \X Coords
    /\ ptres = None
    /\ NetIdle /\ TrIdle /\ GeoIdle

\* a == b, and the hash of each
Compare ==
    /\ ptres = None
    /\ ptres' = Some([eq |-> PtEq(pa, pb), ha |-> PtHash(pa), hb |-> PtHash(pb)])
    /\ UNCHANGED <<pa, pb, netVars, trVars, atVars, txtVars, boxVars, extVars>>

NextPt == Compare

SpecPt == InitPt /\ [][NextPt]_vars

(***************************************************************************)
(* Transform: builder calls in any order, then transform()                 *)
(***************************************************************************)
Angles == {0, 90, 180, 270}
Axes == {None, Some("x"), Some("y"), Some("xy")}
Offsets == {<<2000, 2000>>}
Scales == {2}
InPoints == {<<0, 5000>>, <<2000, 3000>>, <<-5000, -5000>>}

InitTr ==
    /\ tr = TransformNew
    /\ calls = <<>>
    /\ tin \in InPoints
    /\ tout = None
    /\ NetIdle /\ PtIdle /\ GeoIdle

CanCall == tout = None /\ Len(calls) < MaxCalls

CallRotation ==
    /\ CanCall
    /\ \E angle \in Angles :
          /\ tr' = Rotation(tr, angle)
          /\ calls' = Append(calls, [op |-> "rotation", angle |-> angle])
    /\ UNCHANGED <<tin, tout, netVars, ptVars, atVars, txtVars, boxVars, extVars>>

CallMirror ==
    /\ CanCall
    /\ \E axis \in Axes :
          /\ tr' = Mirror(tr, axis)
          /\ calls' = Append(calls, [op |-> "mirror", axis |-> axis])
    /\ UNCHANGED <<tin, tout, netVars, ptVars, atVars, txtVars, boxVars, extVars>>

CallTranslation ==
    /\ CanCall
    /\ \E pt \in Offsets :
          /\ tr' = Translation(tr, pt)
          /\ calls' = Append(calls, [op |-> "translation", pt |-> pt])
    /\ UNCHANGED <<tin, tout, netVars, ptVars, atVars, txtVars, boxVars, extVars>>

CallScale ==
    /\ CanCall
    /\ \E s \in Scales :
          /\ tr' = Scale(tr, s)
          /\ calls' = Append(calls, [op |-> "scale", scale |-> s])
    /\ UNCHANGED <<tin, tout, netVars, ptVars, atVars, txtVars, boxVars, extVars>>

CallTransform ==
    /\ tout = None
    /\ tout' = Some(Transform(tr, tin))
    /\ UNCHANGED <<tr, calls, tin, netVars, ptVars, atVars, txtVars, boxVars,
                   extVars>>

NextTr == CallRotation \/ CallMirror \/ CallTranslation \/ CallScale \/ CallTransform

SpecTr == InitTr /\ [][NextTr]_vars

(***************************************************************************)
(* A library with graphics and several units, for resolving and outlines   *)
(***************************************************************************)
LibUnit(unit, graphics, pins) == [unit |-> unit, graphics |-> graphics, pins |-> pins]

\* Device:R with its body; the dual op-amp of test_bbox_symbol_1 and _3 (two
\* amplifier units and a supply unit); a pad; a power symbol; a dual gate
\* whose supply pin is common to all units and so sits in sub-unit 0.
GeoLibrary ==
    << [lib_id |-> <<"Device", "R">>,
        units |-> << LibUnit(0, << [type |-> "Rectangle", start |-> <<-1016, -2540>>,
                                    end |-> <<1016, 2540>>] >>, <<>>),
                     LibUnit(1, <<>>, << LibPin("1", 0, 3810, 270),
                                         LibPin("2", 0, -3810, 90) >>) >>],
       [lib_id |-> <<"Amplifier_Operational", "LM2904">>,
        units |-> << LibUnit(1, << [type |-> "Polyline",
                                    pts |-> << <<-5080, 5080>>, <<5080, 0>>,
                                               <<-5080, -5080>>, <<-5080, 5080>> >>] >>,
                                << LibPin("1", 7620, 0, 180),
                                   LibPin("2", -7620, -2540, 0),
                                   LibPin("3", -7620, 2540, 0) >>),
                     LibUnit(2, << [type |-> "Polyline",
                                    pts |-> << <<-5080, 5080>>, <<5080, 0>>,
                                               <<-5080, -5080>>, <<-5080, 5080>> >>] >>,
                                << LibPin("5", -7620, 2540, 0),
                                   LibPin("6", -7620, -2540, 0),
                                   LibPin("7", 7620, 0, 180) >>),
                     LibUnit(3, <<>>, << LibPin("4", -2540, -7620, 90),
                                         LibPin("8", -2540, 7620, 270) >>) >>],
       [lib_id |-> <<"Mechanical", "MountingHole_Pad">>,
        units |-> << LibUnit(0, << [type |-> "Circle", center |-> <<0, 1270>>,
                                    radius |-> 1270] >>, <<>>),
                     LibUnit(1, <<>>, << LibPin("1", 0, -2540, 90) >>) >>],
       [lib_id |-> <<"power", "+15V">>,
        units |-> << LibUnit(0, << [type |-> "Polyline",
                                    pts |-> << <<0, 0>>, <<0, 2540>> >>] >>, <<>>),
                     LibUnit(1, <<>>, << LibPin("1", 0, 0, 90) >>) >>],
       [lib_id |-> <<"Logic", "DualGate">>,
        units |-> << LibUnit(0, <<>>, << LibPin("14", 0, 7620, 270) >>),
                     LibUnit(1, << [type |-> "Arc", start |-> <<0, 3810>>,
                                    mid |-> <<9000, 0>>, end |-> <<0, -3810>>],
                                   [type |-> "Line",
                                    pts |-> << <<0, 3810>>, <<0, -3810>> >>] >>,
                                << LibPin("1", -5080, 0, 0),
                                   LibPin("2", 7620, 0, 180) >>),
                     LibUnit(2, << [type |-> "Line",
                                    pts |-> << <<0, 3810>>, <<0, -3810>> >>] >>,
                                << LibPin("3", -5080, 0, 0),
                                   LibPin("4", 7620, 0, 180) >>) >>] >>

\* Effects: the justification set, the font (size, face) and the hide flag
Effects(justify, face, hide) ==
    [justify |-> justify, size |-> 1500, face |-> face, hide |-> hide]

\* a placed symbol with its two properties next to it, the Value hidden or not
PlacedSymbol(reference, value, lib_id, unit, pos, mirror, hide) ==
    [type |-> "Symbol", lib_id |-> lib_id, pos |-> pos, mirror |-> mirror,
     unit |-> unit,
     props |-> << [key |-> "Value", value |-> value,
                   pos |-> Pos(pos.x + 12000, pos.y, 0),
                   effects |-> Effects({"Left"}, None, hide)],
                  [key |-> "Reference", value |-> reference,
                   pos |-> Pos(pos.x, pos.y - 9000, 0),
                   effects |-> Effects({}, None, FALSE)] >>]

GeoStart ==
    /\ schema = [items |-> <<>>, library_symbols |-> GeoLibrary]
    /\ npc = "build"
    /\ wires = <<>> /\ positions = <<>> /\ node_positions = <<>> /\ names = <<>>

(***************************************************************************)
(* Resolving positions on a schema of placed symbols                       *)
(***************************************************************************)
LM2904 == <<"Amplifier_Operational", "LM2904">>

\* the two amplifiers and the supply unit of U1, a resistor, a gate, and a
\* symbol whose library symbol is not in the schema
AtSymbols ==
    { PlacedSymbol("U1", "LM2904", LM2904, 1, Pos(50000, 50000, 0), None, TRUE),
      PlacedSymbol("U1", "LM2904", LM2904, 2, Pos(70000, 50000, 90), Some("x"), TRUE),
      PlacedSymbol("U1", "LM2904", LM2904, 3, Pos(50000, 80000, 180), None, TRUE),
      PlacedSymbol("R1", "10k", <<"Device", "R">>, 1, Pos(30000, 40000, 270),
                   Some("y"), FALSE),
      PlacedSymbol("G1", "DualGate", <<"Logic", "DualGate">>, 1,
                   Pos(20000, 20000, 0), None, TRUE),
      PlacedSymbol("X1", "Part", <<"Missing", "Part">>, 1, Pos(10000, 10000, 0),
                   None, TRUE) }

AtPt(pt) == [kind |-> "Pt", pt |-> pt]
AtPin(reference, pin) == [kind |-> "Pin", reference |-> reference, pin |-> pin]
AtDot(name) == [kind |-> "Dot", name |-> name]

AtChoices ==
    { AtPt(<<1270, -2540>>),
      AtPin("U1", "1"), AtPin("U1", "7"), AtPin("U1", "8"), AtPin("U1", "9"),
      AtPin("R1", "2"), AtPin("G1", "2"), AtPin("G1", "14"),
      AtPin("X1", "1"), AtPin("R9", "1"),
      AtDot("a") }

InitAt == GeoStart /\ PtIdle /\ TrIdle /\ GeoIdle

\* schema.items.push(SchemaItem::Symbol(symbol))
PlaceSymbol ==
    /\ npc = "build" /\ resolved = None
    /\ Len(schema.items) < MaxPlaced
    /\ \E symbol \in AtSymbols :
          schema' = [schema EXCEPT !.items = Append(@, symbol)]
    /\ UNCHANGED <<npc, wires, positions, node_positions, names, ptVars, trVars,
                   atVars, txtVars, boxVars, extVars>>

\* schema.get_pt(&at)
GetPt ==
    /\ resolved = None
    /\ \E a \in AtChoices :
          /\ at' = a
          /\ resolved' = Some(get_pt(schema, a))
    /\ UNCHANGED <<netVars, ptVars, trVars, txtVars, boxVars, extVars>>

NextAt == PlaceSymbol \/ From \/ GetPt

SpecAt == InitAt /\ [][NextAt]_vars

(***************************************************************************)
(* The outline of one text                                                 *)
(***************************************************************************)
Justifications == SUBSET {"Left", "Right", "Top", "Bottom"}
TextAngles == {0, 90, 180, 270, 45, 360}
Faces == {None, Some("Arial"), Some("NoSuchFont"), Some("Broken")}
Texts == {"", "OUT"}

InitText ==
    /\ txt \in [text : Texts,
                pos : {Pos(10000, 20000, angle) : angle \in TextAngles},
                effects : {Effects(justify, face, FALSE) :
                              justify \in Justifications, face \in Faces}]
    /\ trect = None
    /\ NetIdle /\ PtIdle /\ TrIdle /\ AtIdle /\ BoxIdle /\ ExtIdle

\* text(&self.text, &self.pos, &self.effects)
TextOutline ==
    /\ trect = None
    /\ trect' = Some(text(txt.text, txt.pos, txt.effects))
    /\ UNCHANGED <<txt, netVars, ptVars, trVars, atVars, boxVars, extVars>>

NextText == TextOutline

SpecText == InitText /\ [][NextText]_vars

(***************************************************************************)
(* Outlines of placed symbols and of the whole schema                      *)
(***************************************************************************)
TextItem(type, str, pos, justify, face) ==
    [type |-> type, text |-> str, pos |-> pos, effects |-> Effects(justify, face, FALSE)]

\* symbols of several units, turned and mirrored, one with a visible Value;
\* a wire drawn from right to left; a junction without diameter; a
\* no-connect; labels, one of them in a font that is not installed; a text
\* away from everything else
BoxItems ==
    { PlacedSymbol("U1", "LM2904", LM2904, 1, Pos(50000, 50000, 0), None, TRUE),
      PlacedSymbol("U1", "LM2904", LM2904, 3, Pos(50000, 50000, 90), Some("x"), TRUE),
      PlacedSymbol("G1", "DualGate", <<"Logic", "DualGate">>, 1,
                   Pos(20000, 20000, 270), Some("y"), FALSE),
      PlacedSymbol("R1", "10k", <<"Device", "R">>, 1, Pos(30000, 40000, 90),
                   None, TRUE),
      WireItem(<<60000, 30000>>, <<40000, 30000>>),
      [type |-> "Junction", pos |-> Pos(40000, 30000, 0), diameter |-> 0],
      [type |-> "NoConnect", pos |-> Pos(60000, 30000, 0)],
      TextItem("LocalLabel", "OUT", Pos(60000, 30000, 180), {"Right", "Bottom"}, None),
      TextItem("GlobalLabel", "VCC", Pos(40000, 30000, 0), {"Left"}, None),
      TextItem("GlobalLabel", "VEE", Pos(40000, 35000, 0), {"Left"}, Some("NoSuchFont")),
      TextItem("Text", "note", Pos(90000, 90000, 0), {}, None) }

InitBox == GeoStart /\ PtIdle /\ TrIdle /\ GeoIdle

\* schema.items.push(item)
AddBoxItem ==
    /\ outl = None
    /\ Len(schema.items) < MaxPlaced
    /\ \E item \in BoxItems : schema' = [schema EXCEPT !.items = Append(@, item)]
    /\ UNCHANGED <<npc, wires, positions, node_positions, names, ptVars, trVars,
                   atVars, txtVars, boxVars, extVars>>

\* symbol.outline(&schema) for the symbol at place i of schema.items
SymbolOutline ==
    /\ outl = None
    /\ \E i \in 1..Len(schema.items) :
          /\ schema.items[i].type = "Symbol"
          /\ outl' = Some([of |-> i, r |-> outline(schema.items[i], schema)])
    /\ UNCHANGED <<netVars, ptVars, trVars, atVars, txtVars, extVars>>

\* schema.outline()
SchemaOutline ==
    /\ outl = None
    /\ outl' = Some([of |-> 0, r |-> schema_outline(schema)])
    /\ UNCHANGED <<netVars, ptVars, trVars, atVars, txtVars, extVars>>

NextBox == AddBoxItem \/ SymbolOutline \/ SchemaOutline

SpecBox == InitBox /\ [][NextBox]_vars

(***************************************************************************)
(* Netlist extraction on schemas with excluded and unresolved symbols      *)
(***************************************************************************)

\* R1 has pin 1 on P1 and pin 2 on P2; the pad H1 has its pin on P3; the gate
\* places unit 2 and shares sub-unit 0; X1 has no library symbol.  A label
\* lies on P3n, which renders like P3, a junction on P4.
NetItems ==
    { PlacedSymbol("R1", "10k", <<"Device", "R">>, 1, Pos(100000, 53810, 0), None, TRUE),
      PlacedSymbol("H1", "Pad", <<"Mechanical", "MountingHole_Pad">>, 1,
                   Pos(107620, 47460, 0), None, TRUE),
      PlacedSymbol("G1", "DualGate", <<"Logic", "DualGate">>, 2,
                   Pos(120000, 50000, 90), None, TRUE),
      PlacedSymbol("X1", "Part", <<"Missing", "Part">>, 1, Pos(107620, 57620, 0),
                   None, TRUE),
      WireItem(P2, P3),
      WireItem(P3n, P4),
      [type |-> "Junction", pos |-> Pos(107620, 57620, 0), diameter |-> 0],
      [type |-> "NoConnect", pos |-> Pos(100000, 50000, 0)],
      TextItem("LocalLabel", "OUT", Pos(107622, 50001, 0), {}, None),
      TextItem("GlobalLabel", "VCC", Pos(100000, 57620, 180), {}, None),
      TextItem("Text", "note", Pos(90000, 90000, 0), {}, None) }

InitNetItems == GeoStart /\ PtIdle /\ TrIdle /\ GeoIdle

\* schema.items.push(item)
AddNetItem ==
    /\ npc = "build"
    /\ Len(schema.items) < MaxPlaced
    /\ \E item \in NetItems : schema' = [schema EXCEPT !.items = Append(@, item)]
    /\ UNCHANGED <<npc, wires, positions, node_positions, names, ptVars, trVars,
                   atVars, txtVars, boxVars, extVars>>

NextNetItems == AddNetItem \/ From

SpecNetItems == InitNetItems /\ [][NextNetItems]_vars

(***************************************************************************)
(* Netlist::from step by step: the loop over positions and, inside it, the *)
(* recursion of seek_wire as a stack of calls.  A frame holds the point    *)
(* the call was made for and what is left of the list get_wire returned    *)
(* to it.  Each call pushes what it finds and then the callee's result, so *)
(* the result of the outermost call is the points in the order in which    *)
(* they are pushed: from_found.                                            *)
(***************************************************************************)
MaxDepth == 5

\* a junction and a no-connect as connection points; three wires that close
\* a triangle (one end rendered like P3), and a wire of length zero
SeekItems ==
    { [type |-> "Junction", pos |-> Pos(100000, 57620, 0), diameter |-> 0],
      [type |-> "NoConnect", pos |-> Pos(107620, 50000, 0)],
      WireItem(P2, P4),
      WireItem(P4, P3n),
      WireItem(P3, P2),
      WireItem(P4, P4) }

InitSeek == NetIdle /\ PtIdle /\ TrIdle /\ GeoIdle

\* schema.items.push(item)
AddSeekItem ==
    /\ npc = "build"
    /\ Len(schema.items) < MaxItems
    /\ \E item \in SeekItems : schema' = [schema EXCEPT !.items = Append(@, item)]
    /\ UNCHANGED <<npc, wires, positions, node_positions, names, ptVars, trVars,
                   atVars, txtVars, boxVars, extVars>>

\* Netlist::from, up to the first iteration of the loop over positions
BeginFrom ==
    /\ npc = "build"
    /\ npc' = "seek"
    /\ wires' = Wires(schema)
    /\ positions' = collect_points(schema)
    /\ node_positions' = <<>>
    /\ from_visited_positions' = <<>>
    /\ from_visited_wires' = <<>>
    /\ from_pos' = 1
    /\ UNCHANGED <<schema, names, from_stack, from_found, ptVars, trVars, atVars,
                   txtVars, boxVars,
                   drawVars, sexpVars>>

\* the frame of a call seek_wire(pt, ..): get_wire has run, the loop has not
Frame(pt, g) == [pt |-> pt, todo |-> IF g.wire = None THEN <<>> ELSE g.wire[1]]

\* from(): an iteration for a position that is in visited_positions
SkipVisited ==
    /\ npc = "seek" /\ from_stack = <<>>
    /\ from_pos <= Len(positions)
    /\ Contains(from_visited_positions, positions[from_pos].k)
    /\ from_pos' = from_pos + 1
    /\ UNCHANGED <<netVars, from_stack, from_found, from_visited_wires,
                   from_visited_positions, ptVars, trVars, atVars, txtVars, boxVars,
                   drawVars, sexpVars>>

\* from(): visited_positions.push(*pos) and the call seek_wire(*pos, ..)
CallSeek ==
    /\ npc = "seek" /\ from_stack = <<>>
    /\ from_pos <= Len(positions)
    /\ ~Contains(from_visited_positions, positions[from_pos].k)
    /\ LET pos == positions[from_pos].k
           g == get_wire(pos, wires, from_visited_wires)
       IN  /\ from_visited_positions' = Append(from_visited_positions, pos)
           /\ from_visited_wires' = g.visited
           /\ from_stack' = <<Frame(pos, g)>>
           /\ from_found' = <<>>
    /\ UNCHANGED <<netVars, from_pos, ptVars, trVars, atVars, txtVars, boxVars,
                   drawVars, sexpVars>>

\* seek_wire: found.push(wire) and the recursive call seek_wire(wire, ..)
SeekNext ==
    /\ npc = "seek" /\ from_stack # <<>>
    /\ from_stack[Len(from_stack)].todo # <<>>
    /\ Len(from_stack) < MaxDepth
    /\ LET top == Len(from_stack)
           wire == Head(from_stack[top].todo)
           g == get_wire(wire, wires, from_visited_wires)
       IN  /\ from_found' = Append(from_found, wire)
           /\ from_visited_wires' = g.visited
           /\ from_stack' = Append([from_stack EXCEPT ![top].todo = Tail(@)],
                                   Frame(wire, g))
    /\ UNCHANGED <<netVars, from_visited_positions, from_pos, ptVars, trVars,
                   atVars, txtVars, boxVars,
                   drawVars, sexpVars>>

\* seek_wire: the loop is over, `found` goes back to the calling seek_wire
SeekReturn ==
    /\ npc = "seek" /\ Len(from_stack) > 1
    /\ from_stack[Len(from_stack)].todo = <<>>
    /\ from_stack' = SubSeq(from_stack, 1, Len(from_stack) - 1)
    /\ UNCHANGED <<netVars, from_found, from_visited_wires, from_visited_positions,
                   from_pos, ptVars, trVars, atVars, txtVars, boxVars,
                   drawVars, sexpVars>>

\* from(): seek_wire has returned; the nodes of the points found are merged
\* and the group is inserted
SeekDone ==
    /\ npc = "seek" /\ Len(from_stack) = 1
    /\ from_stack[1].todo = <<>>
    /\ LET m == MergeFound(from_found, positions, positions[from_pos].v,
                           from_visited_positions)
       IN  /\ node_positions' = MapInsert(node_positions, positions[from_pos].k,
                                          m.new_nodes)
           /\ from_visited_positions' = m.visited_positions
    /\ from_stack' = <<>>
    /\ from_pos' = from_pos + 1
    /\ UNCHANGED <<schema, npc, wires, positions, names, from_found,
                   from_visited_wires, ptVars, trVars, atVars, txtVars, boxVars,
                   drawVars, sexpVars>>

\* from(): the loop over positions is over, Ok(Netlist { .. }) is returned
FinishFrom ==
    /\ npc = "seek" /\ from_stack = <<>>
    /\ from_pos > Len(positions)
    /\ names' = generate_names(node_positions)
    /\ npc' = "done"
    /\ UNCHANGED <<schema, wires, positions, node_positions, seekVars, ptVars,
                   trVars, atVars, txtVars, boxVars,
                   drawVars, sexpVars>>

\* a step of the loop over positions and of the traversal inside it
SeekStep == SkipVisited \/ CallSeek \/ SeekNext \/ SeekReturn \/ SeekDone

NextSeek ==
    \/ AddSeekItem \/ BeginFrom
    \/ SkipVisited \/ CallSeek \/ SeekNext \/ SeekReturn \/ SeekDone \/ FinishFrom

\* A call that has started keeps running.  What is left once the loop is over
\* is generate_names, two nested loops over lists that are no longer changed:
\* FinishFrom takes them in one step.
SpecSeek == InitSeek /\ [][NextSeek]_vars /\ WF_vars(SeekStep)

(***************************************************************************)
(* draw.rs: the drawers.  A drawer reads and writes the items, the library *)
(* symbols and the cursor of a Schema: d = [items, library_symbols,        *)
(* last_pos].  The uuid of a new item plays no part and is left out.       *)
(***************************************************************************)

\* Schema::new: grid: 2.54
GRID == 2540
\* math/mod.rs
PROP_SPACING == 1250
LINE_SPACING == 2500

Attribute(name, val) == [name |-> name, val |-> val]

\* To::at, To::anchor, To::mirror, To::angle, To::length, To::tox, To::toy,
\* To::unit: the first attribute of that variant
AttrOf(attrs, name) ==
    LET hits == SelectSeq(attrs, LAMBDA a : a.name = name)
    IN  IF hits = <<>> THEN None ELSE Some(Head(hits).val)

\* To::direction
direction(attrs) ==
    IF AttrOf(attrs, "Direction") = None THEN "Left"
    ELSE AttrOf(attrs, "Direction")[1]

\* a drawer returns Err(e) and leaves the schema as d
Failed(e, d) == [res |-> "Err", err |-> e, val |-> d]

\* draw(..): `if let Some(at) = attrs.at() { get_pt(&at) } else { get_pt(&last_pos) }`
AtOrCursor(d, attrs) ==
    get_pt(d, IF AttrOf(attrs, "At") # None THEN AttrOf(attrs, "At")[1]
              ELSE d.last_pos)

\* A faulty choice of the end point: Toy is looked at before Tox.
ToPosToyFirst(d, attrs, pt) ==
    LET tox == AttrOf(attrs, "Tox")
        toy == AttrOf(attrs, "Toy")
        length == IF AttrOf(attrs, "Length") = None THEN GRID
                  ELSE AttrOf(attrs, "Length")[1]
        target_pos == get_pt(d, IF toy # None THEN toy[1] ELSE tox[1])
    IN  IF tox # None \/ toy # None
        THEN IF target_pos.res = "panic" THEN target_pos
             ELSE IF toy # None THEN Returned(<<pt[1], target_pos.val[2]>>)
             ELSE Returned(<<target_pos.val[1], pt[2]>>)
        ELSE CASE direction(attrs) = "Left" -> Returned(<<pt[1] - length, pt[2]>>)
               [] direction(attrs) = "Right" -> Returned(<<pt[1] + length, pt[2]>>)
               [] direction(attrs) = "Up" -> Returned(<<pt[1], pt[2] - length>>)
               [] direction(attrs) = "Down" -> Returned(<<pt[1], pt[2] + length>>)

\* draw(Wire): `to_pos`, the end of a wire that starts at pt; target_pos is
\* the resolved Tox attribute, or else the resolved Toy attribute
ToPos(d, attrs, pt) ==
    LET tox == AttrOf(attrs, "Tox")
        toy == AttrOf(attrs, "Toy")
        length == IF AttrOf(attrs, "Length") = None THEN GRID
                  ELSE AttrOf(attrs, "Length")[1]
        target_pos == get_pt(d, IF tox # None THEN tox[1] ELSE toy[1])
    IN  IF tox # None \/ toy # None
        THEN IF target_pos.res = "panic" THEN target_pos
             ELSE IF tox # None THEN Returned(<<target_pos.val[1], pt[2]>>)
             ELSE Returned(<<pt[1], target_pos.val[2]>>)
        ELSE CASE direction(attrs) = "Left" -> Returned(<<pt[1] - length, pt[2]>>)
               [] direction(attrs) = "Right" -> Returned(<<pt[1] + length, pt[2]>>)
               [] direction(attrs) = "Up" -> Returned(<<pt[1], pt[2] - length>>)
               [] direction(attrs) = "Down" -> Returned(<<pt[1], pt[2] + length>>)

\* the one element of a set of one: in Only({e(x) : x \in {v}}) the value
\* of v is worked out once and x stands for it in e
Only(S) == CHOOSE x \in S : TRUE

\* A faulty drawer: the wire is pushed, the cursor stays where it was.
DrawWireKeepsCursor(d, attrs) ==
    Only({ IF pt.res = "panic" THEN pt
           ELSE Only({ IF end.res = "panic" THEN end
                       ELSE Ok([d EXCEPT
                                  !.items = Append(@, [type |-> "Wire",
                                                       pts |-> <<pt.val, end.val>>,
                                                       attrs |-> attrs])]) :
                       end \in {ToPos(d, attrs, pt.val)} }) :
           pt \in {AtOrCursor(d, attrs)} })

\* impl Drawer<Wire> for Schema
draw_wire(d, attrs) ==
    Only({ IF pt.res = "panic" THEN pt
           ELSE Only({ IF end.res = "panic" THEN end
                       ELSE Ok([d EXCEPT
                                  !.items = Append(@, [type |-> "Wire",
                                                       pts |-> <<pt.val, end.val>>,
                                                       attrs |-> attrs]),
                                  !.last_pos = AtPt(end.val)]) :
                       end \in {ToPos(d, attrs, pt.val)} }) :
           pt \in {AtOrCursor(d, attrs)} })

\* impl Drawer<LocalLabel> for Schema; label is LocalLabel::new(text) with attrs
draw_local_label(d, label) ==
    LET pt == AtOrCursor(d, label.attrs)
        angle == IF AttrOf(label.attrs, "Rotate") # None
                 THEN AttrOf(label.attrs, "Rotate")[1] ELSE 0
        justify == IF angle \in {0, 90} THEN {"Left", "Bottom"}
                   ELSE IF angle \in {180, 270} THEN {"Right", "Bottom"}
                   ELSE {}
    IN  IF pt.res = "panic" THEN pt
        ELSE Ok([d EXCEPT
                   !.items = Append(@, [type |-> "LocalLabel", text |-> label.text,
                                        pos |-> Pos(pt.val[1], pt.val[2], angle),
                                        effects |-> Effects(justify, None, FALSE),
                                        attrs |-> label.attrs]),
                   !.last_pos = AtPt(pt.val)])

\* impl Drawer<GlobalLabel> for Schema
draw_global_label(d, label) ==
    LET pt == get_pt(d, d.last_pos)
    IN  IF pt.res = "panic" THEN pt
        ELSE Ok([d EXCEPT
                   !.items = Append(@, [type |-> "GlobalLabel", text |-> label.text,
                                        pos |-> Pos(pt.val[1], pt.val[2], 0),
                                        effects |-> Effects({}, None, FALSE),
                                        attrs |-> label.attrs])])

\* impl Drawer<Junction> for Schema
draw_junction(d) ==
    LET pt == get_pt(d, d.last_pos)
    IN  IF pt.res = "panic" THEN pt
        ELSE Ok([d EXCEPT
                   !.items = Append(@, [type |-> "Junction",
                                        pos |-> Pos(pt.val[1], pt.val[2], 0),
                                        diameter |-> 0])])

\* impl Drawer<NoConnect> for Schema
draw_no_connect(d, attrs) ==
    LET pt == AtOrCursor(d, attrs)
    IN  IF pt.res = "panic" THEN pt
        ELSE Ok([d EXCEPT
                   !.items = Append(@, [type |-> "NoConnect",
                                        pos |-> Pos(pt.val[1], pt.val[2], 0),
                                        attrs |-> attrs]),
                   !.last_pos = AtPt(pt.val)])

(***************************************************************************)
(* draw.rs: draw(Symbol).  The symbol library on disk is an input of the   *)
(* drawer: the library symbols above, each with its properties.            *)
(***************************************************************************)
LibProp(key, value, hide) ==
    [key |-> key, value |-> value, pos |-> Pos(0, 0, 0),
     effects |-> Effects({}, None, hide)]

\* the properties of the symbols in the library files; the gate keeps all
\* of its properties hidden
DiskProps(lib_id) ==
    CASE lib_id = <<"Device", "R">> ->
            << LibProp("Reference", "R", FALSE), LibProp("Value", "R", FALSE),
               LibProp("Footprint", "", TRUE), LibProp("ki_keywords", "R res", TRUE) >>
      [] lib_id = LM2904 ->
            << LibProp("Reference", "U", FALSE), LibProp("Value", "LM2904", FALSE),
               LibProp("ki_keywords", "dual opamp", TRUE) >>
      [] lib_id = <<"Mechanical", "MountingHole_Pad">> ->
            << LibProp("Reference", "H", FALSE), LibProp("Value", "MountingHole_Pad", TRUE) >>
      [] lib_id = <<"power", "+15V">> ->
            << LibProp("Reference", "#PWR", TRUE), LibProp("Value", "+15V", FALSE) >>
      [] OTHER ->
            << LibProp("Reference", "U", TRUE), LibProp("Value", "DualGate", TRUE) >>

\* the symbols found under /usr/share/kicad/symbols
DiskLibrary ==
    [i \in DOMAIN GeoLibrary |->
        [lib_id |-> GeoLibrary[i].lib_id, units |-> GeoLibrary[i].units,
         props |-> DiskProps(GeoLibrary[i].lib_id)]]

\* SymbolLibrary::load
load(lib_id) ==
    LET hits == SelectSeq(DiskLibrary, LAMBDA l : l.lib_id = lib_id)
    IN  IF hits = <<>> THEN Err("can not find library") ELSE Ok(Head(hits))

\* key.starts_with("ki_")
KiKeys == {"ki_keywords", "ki_description", "ki_fp_filters"}

\* the references the numbering of power symbols and flags hands out
RefTails == {"", "01", "02"}

\* String::starts_with on a reference
starts_with(str, prefix) == \E tail \in RefTails : str = prefix \o tail

\* Schema::next_power and Schema::next_flag: the next free reference of
\* that kind, one of a few
next_power(d) == {"#PWR01", "#PWR02"}
next_flag(d) == {"#FLG01", "#FLG02"}

\* LibrarySymbol::symbol: a symbol of that unit at Pos::default with the
\* properties whose key does not start with "ki_"
lib_symbol(lib, unit) ==
    [type |-> "Symbol", lib_id |-> lib.lib_id, pos |-> Pos(0, 0, 0),
     mirror |-> None, unit |-> unit,
     props |-> SelectSeq(lib.props, LAMBDA p : p.key \notin KiKeys),
     pins |-> <<>>, instances |-> <<>>]

\* Symbol::set_property
set_property(symbol, key, value) ==
    [symbol EXCEPT !.props = [i \in DOMAIN @ |->
                                IF @[i].key = key THEN [@[i] EXCEPT !.value = value]
                                ELSE @[i]]]

\* place_properties: the side of the symbol that has no pin
PropertySide(pin_directions, pin_count) ==
    IF pin_count = 1
    THEN CASE 0 \in pin_directions -> "Left"
           [] 90 \in pin_directions -> "Up"
           [] 180 \in pin_directions -> "Right"
           [] 270 \in pin_directions -> "Down"
           [] OTHER -> "panic"
    ELSE CASE 0 \notin pin_directions -> "Left"
           [] 90 \notin pin_directions -> "Up"
           [] 180 \notin pin_directions -> "Right"
           [] 270 \notin pin_directions -> "Down"
           [] OTHER -> "panic"

\* math::place_properties: the outcomes for `symbol` on schema s.  With no
\* visible property `vis_props - 1` underflows: a panic in a build with
\* overflow checks, a wrapped value nothing reads in a build without.
place_properties(s, symbol) ==
    UNION {
        LET rank(i) == Cardinality({j \in 1..(i - 1) : visible(symbol.props[j])})
            turned == IF symbol.pos.angle # 0 THEN 360 - symbol.pos.angle ELSE 0
            placed(x, start, justify, angle) ==
                [symbol EXCEPT !.props =
                    [i \in DOMAIN @ |->
                        IF visible(@[i])
                        THEN [@[i] EXCEPT
                                !.pos = Pos(x, start + rank(i) * LINE_SPACING,
                                            IF angle = None THEN @.angle ELSE angle[1]),
                                !.effects.justify = justify]
                        ELSE @[i]]]
        IN  IF bbox.res = "panic" THEN {Panic("outline")}
            ELSE IF side = "panic" THEN {Panic("all sides of the symbol have pins")}
            ELSE IF vis_props = 0
            THEN {Panic("attempt to subtract with overflow"), Ok(symbol)}
            ELSE CASE side = "Right" ->
                        {Ok(placed(bbox.val.start[1] - PROP_SPACING,
                                   symbol.pos.y - Half((vis_props - 1) * LINE_SPACING),
                                   {"Right"}, Some(turned)))}
                   [] side = "Up" ->
                        {Ok(placed(symbol.pos.x,
                                   bbox.val.start[2] - PROP_SPACING
                                       - (vis_props - 1) * LINE_SPACING,
                                   {}, None))}
                   [] side = "Left" ->
                        {Ok(placed(bbox.val.end[1] + PROP_SPACING,
                                   symbol.pos.y - Half((vis_props - 1) * LINE_SPACING),
                                   {"Left"}, Some(turned)))}
                   [] side = "Down" ->
                        {Ok(placed(symbol.pos.x, bbox.val.end[2] + PROP_SPACING,
                                   {}, None))} :
        bbox \in {symbol_outline(symbol, s)},
        side \in {LET pins == Pins(LibrarySymbol(s, symbol.lib_id)[1], symbol.unit)
                  IN  PropertySide(
                          { IF pins[i].pos.angle + symbol.pos.angle >= 360
                            THEN pins[i].pos.angle + symbol.pos.angle - 360
                            ELSE pins[i].pos.angle + symbol.pos.angle :
                            i \in DOMAIN pins },
                          Len(pins))},
        vis_props \in {Cardinality({i \in DOMAIN symbol.props :
                                       visible(symbol.props[i])})} }

\* Symbol::new(reference, value, lib_id) with the attributes chained on it
NewSymbol(reference, value, lib_id, attrs) ==
    [reference |-> reference, value |-> value, lib_id |-> lib_id, attrs |-> attrs]

\* A faulty placement: the pin offset is added to the placement point.
StartPtAdded(pt, pin_pos) == <<pt[1] + pin_pos[1], pt[2] + pin_pos[2]>>

\* draw(Symbol): `start_pt`
StartPt(pt, pin_pos) == <<pt[1] - pin_pos[1], pt[2] - pin_pos[2]>>

\* draw(Symbol): `selected_unit`
SelectedUnit(attrs) ==
    IF AttrOf(attrs, "Unit") # None THEN AttrOf(attrs, "Unit")[1] ELSE 1

\* draw(Symbol): `anchor`
Anchor(attrs) ==
    IF AttrOf(attrs, "Anchor") # None THEN AttrOf(attrs, "Anchor")[1] ELSE "1"

\* draw(Symbol), `if let Some(tox) = symbol.attrs.tox()`: the two wires
\* left and right of the symbol; yields the schema and new_last_pos
DrawTox(d, lib, new_symbol, tox) ==
    Only({
        IF target_pos.res = "panic" THEN target_pos
        ELSE IF pin1 = None \/ pin2 = None THEN Panic("unwrap on None")
        ELSE IF pt.res = "panic" THEN pt
        ELSE Only({
            Only({
                Only({ Ok([d |-> [second.val EXCEPT
                                    !.last_pos = AtPt(<<pt.val[1] - wire_length,
                                                        pt.val[2]>>)],
                           new_last_pos |-> Some(AtPt(<<target_pos.val[1],
                                                        pt.val[2]>>))]) :
                       second \in {draw_wire(
                                     [first.val EXCEPT
                                        !.last_pos = AtPt(<<target_pos.val[1],
                                                            pt.val[2]>>)],
                                     << Attribute("Direction",
                                                  IF wire_length < 0 THEN "Left"
                                                  ELSE "Right"),
                                        Attribute("Length", Abs(wire_length)) >>)} }) :
                first \in {draw_wire(d,
                              << Attribute("Direction",
                                           IF wire_length < 0 THEN "Right" ELSE "Left"),
                                 Attribute("Length", Abs(wire_length)) >>)} }) :
            wire_length \in {Half((pt.val[1] - target_pos.val[1])
                                  - (pin_position(new_symbol, pin1[1])[1]
                                     - pin_position(new_symbol, pin2[1])[1]))} }) :
        target_pos \in {get_pt(d, tox)},
        pin1 \in {lib_pin(lib, "1")},
        pin2 \in {lib_pin(lib, "2")},
        pt \in {get_pt(d, d.last_pos)} })

\* draw(Symbol): the symbol is pushed and the cursor put on new_last_pos, or
\* else on the pin opposite the anchor
PushSymbol(d, new_last_pos, lib, anchor, placed) ==
    LET pin_count == Len(Pins(lib, placed.unit))
        out_pin == IF pin_count = 1 \/ anchor = "2" THEN "1" ELSE "2"
        done == [placed EXCEPT
                    !.instances = << [reference |-> Property(placed, "Reference"),
                                      unit |-> placed.unit] >>]
    IN  IF new_last_pos # None
        THEN Ok([d EXCEPT !.last_pos = new_last_pos[1], !.items = Append(@, done)])
        ELSE IF lib_pin(lib, out_pin) = None THEN Panic("unwrap on None")
        ELSE Ok([d EXCEPT
                   !.last_pos = AtPt(pin_position(done, lib_pin(lib, out_pin)[1])),
                   !.items = Append(@, done)])

\* draw(Symbol) from "calculate position" on, for one reference
PlaceNewSymbol(d, new_last_pos, lib, new_symbol, symbol, anchor, pin_pos, reference) ==
    UNION {
        IF pt.res = "panic" THEN {pt}
        ELSE UNION {
            { IF o.res = "panic" THEN o
              ELSE PushSymbol(d, new_last_pos, lib, anchor, o.val) :
              o \in place_properties(d, pinned) } :
            pinned \in {
                LET start_pt == StartPt(pt.val, pin_pos)
                    pins == Pins(lib, new_symbol.unit)
                IN  [set_property(
                         set_property([new_symbol EXCEPT !.pos.x = start_pt[1],
                                                         !.pos.y = start_pt[2]],
                                      "Reference", reference),
                         "Value", symbol.value)
                     EXCEPT !.pins = [i \in DOMAIN pins |-> pins[i].number]] } } :
        pt \in {AtOrCursor(d, symbol.attrs)} }

\* draw(Symbol) once the library symbol is there: d is the schema that holds
\* it.  An Err outcome carries the schema the drawer leaves behind.
DrawWithLibrary(d, lib, symbol) ==
    UNION {
        IF pin = None THEN {Failed("anchor pin not found", d)}
        ELSE UNION {
            IF wired.res = "panic" THEN {wired}
            ELSE UNION {
                PlaceNewSymbol(wired.val.d, wired.val.new_last_pos, lib, new_symbol,
                               symbol, Anchor(symbol.attrs), pin_pos, reference) :
                reference \in
                    IF starts_with(Property(new_symbol, "Reference"), "#PWR")
                    THEN next_power(d)
                    ELSE IF starts_with(Property(new_symbol, "Reference"), "#FLG")
                    THEN next_flag(d)
                    ELSE {symbol.reference} } :
            pin_pos \in {pin_position(new_symbol, pin[1])},
            wired \in {IF AttrOf(symbol.attrs, "Tox") = None
                       THEN Ok([d |-> d, new_last_pos |-> None])
                       ELSE DrawTox(d, lib, new_symbol,
                                    AttrOf(symbol.attrs, "Tox")[1])} } :
        new_symbol \in
            {[lib_symbol(lib, SelectedUnit(symbol.attrs)) EXCEPT
                !.pos.angle = IF AttrOf(symbol.attrs, "Rotate") # None
                              THEN AttrOf(symbol.attrs, "Rotate")[1] ELSE 0,
                !.mirror = AttrOf(symbol.attrs, "Mirror")]},
        pin \in {lib_pin(lib, Anchor(symbol.attrs))} }

\* impl Drawer<Symbol> for Schema: the outcomes of draw(symbol) on d.  A
\* library symbol the schema does not have is loaded and pushed first.
draw_symbol(d, symbol) ==
    UNION {
        IF found # None THEN DrawWithLibrary(d, found[1], symbol)
        ELSE IF loaded.res = "Err" THEN {Panic("unwrap on Err")}
        ELSE UNION {
            DrawWithLibrary(d1, loaded.val, symbol) :
            d1 \in {[d EXCEPT !.library_symbols = Append(@, loaded.val)]} } :
        found \in {LibrarySymbol(d, symbol.lib_id)},
        loaded \in {load(symbol.lib_id)} }

(***************************************************************************)
(* Building a schema with move_to and draw, as tests/builder.rs does.      *)
(* `drawn` records every call: the operation, its input and how the call   *)
(* ended; `before_draw` is the schema the last call started from.          *)
(***************************************************************************)
MaxDraws == 2

\* Schema::new: no items, no library symbols, the cursor on (0, 0)
InitDraw ==
    /\ schema = [items |-> <<>>, library_symbols |-> <<>>]
    /\ npc = "build"
    /\ wires = <<>> /\ positions = <<>> /\ node_positions = <<>> /\ names = <<>>
    /\ PtIdle /\ TrIdle /\ GeoIdle

\* the Schema the drawers work on
Current ==
    [items |-> schema.items, library_symbols |-> schema.library_symbols,
     last_pos |-> last_pos]

\* cursor targets: a point, a pin of a resistor R1, a pin of no symbol
MoveTargets == { AtPt(<<50800, 50800>>), AtPin("R1", "2"), AtPin("U9", "1") }

WireInputs ==
    { <<>>,
      << Attribute("Direction", "Right"), Attribute("Length", 5080) >>,
      << Attribute("Direction", "Up") >>,
      << Attribute("Direction", "Down"), Attribute("Length", 10160) >>,
      << Attribute("Length", 5080) >>,
      << Attribute("Tox", AtPin("R1", "1")) >>,
      << Attribute("Toy", AtPin("R1", "2")) >>,
      << Attribute("Toy", AtPt(<<10000, 20000>>)), Attribute("Direction", "Right"),
         Attribute("Length", 5080),
         Attribute("Tox", AtPt(<<70000, 60000>>)) >>,
      << Attribute("Direction", "Up"), Attribute("Toy", AtPt(<<10000, 20000>>)) >>,
      << Attribute("At", AtPt(<<30000, 30000>>)), Attribute("Direction", "Right") >>,
      << Attribute("At", AtPin("R1", "2")) >> }

\* R1 in every rotation and with every mirror; the op-amp anchored on pin 2
\* and its supply unit; resistors placed on a pin and stretched to a
\* target; a pad, a gate, a power symbol; an anchor the symbol does not
\* have; a symbol no library file has
SymbolInputs ==
    { NewSymbol("R1", "10k", <<"Device", "R">>, rot \o mir) :
        rot \in { <<>>, << Attribute("Rotate", 90) >>, << Attribute("Rotate", 180) >>,
                  << Attribute("Rotate", 270) >> },
        mir \in { <<>>, << Attribute("Mirror", "x") >>, << Attribute("Mirror", "y") >>,
                  << Attribute("Mirror", "xy") >> } }
    \cup
    { NewSymbol("U1", "LM2904", LM2904,
                << Attribute("Anchor", "2"), Attribute("Mirror", "x") >>),
      NewSymbol("U1", "LM2904", LM2904,
                << Attribute("Unit", 3), Attribute("Anchor", "4"),
                   Attribute("At", AtPt(<<20000, 80000>>)) >>),
      NewSymbol("R2", "1k", <<"Device", "R">>,
                << Attribute("Rotate", 90), Attribute("At", AtPin("R1", "2")),
                   Attribute("Anchor", "2") >>),
      NewSymbol("R3", "1k", <<"Device", "R">>,
                << Attribute("Rotate", 90), Attribute("Tox", AtPin("R1", "1")) >>),
      NewSymbol("R4", "1k", <<"Device", "R">>,
                << Attribute("Rotate", 90), Attribute("Tox", AtPt(<<80000, 50800>>)) >>),
      NewSymbol("H1", "Pad", <<"Mechanical", "MountingHole_Pad">>, <<>>),
      NewSymbol("G1", "Gate", <<"Logic", "DualGate">>, << Attribute("Rotate", 180) >>),
      NewSymbol("#PWR", "+15V", <<"power", "+15V">>, <<>>),
      NewSymbol("R9", "10k", <<"Device", "R">>, << Attribute("Anchor", "9") >>),
      NewSymbol("X1", "Part", <<"Missing", "Part">>, <<>>) }

LabelInputs ==
    { [text |-> "INPUT", attrs |-> << Attribute("Rotate", 180) >>],
      [text |-> "OUT", attrs |-> << Attribute("At", AtPin("R1", "1")) >>] }

NoConnectInputs == { <<>>, << Attribute("At", AtPin("R1", "2")) >> }

\* the call is over: a panic ends the program, anything else leaves the
\* schema of the outcome
Drawn(op, input, out) ==
    /\ drawn' = Append(drawn, [op |-> op, input |-> input, res |-> out.res])
    /\ before_draw' = Current
    /\ IF out.res = "panic"
       THEN /\ npc' = "aborted"
            /\ UNCHANGED <<schema, last_pos>>
       ELSE /\ npc' = npc
            /\ schema' = [items |-> out.val.items,
                          library_symbols |-> out.val.library_symbols]
            /\ last_pos' = out.val.last_pos
    /\ UNCHANGED <<wires, positions, node_positions, names, ptVars, trVars,
                   atVars, txtVars, boxVars, seekVars, sexpVars>>

CanDraw == npc = "build" /\ Len(drawn) < MaxDraws

\* Plot::move_to
MoveTo ==
    /\ CanDraw
    /\ \E pt \in MoveTargets :
          \E out \in {Ok([Current EXCEPT !.last_pos = pt])} : Drawn("move_to", pt, out)

DrawWire ==
    /\ CanDraw
    /\ \E attrs \in WireInputs :
          \E out \in {draw_wire(Current, attrs)} : Drawn("Wire", attrs, out)

DrawSymbol ==
    /\ CanDraw
    /\ \E symbol \in SymbolInputs :
          \E out \in draw_symbol(Current, symbol) : Drawn("Symbol", symbol, out)

DrawLocalLabel ==
    /\ CanDraw
    /\ \E label \in LabelInputs :
          \E out \in {draw_local_label(Current, label)} :
              Drawn("LocalLabel", label, out)

DrawGlobalLabel ==
    /\ CanDraw
    /\ \E label \in LabelInputs :
          \E out \in {draw_global_label(Current, label)} :
              Drawn("GlobalLabel", label, out)

DrawJunction ==
    /\ CanDraw
    /\ \E out \in {draw_junction(Current)} : Drawn("Junction", <<>>, out)

DrawNoConnect ==
    /\ CanDraw
    /\ \E attrs \in NoConnectInputs :
          \E out \in {draw_no_connect(Current, attrs)} :
              Drawn("NoConnect", attrs, out)

NextDraw ==
    \/ MoveTo
    \/ DrawWire
    \/ DrawSymbol
    \/ DrawLocalLabel
    \/ DrawGlobalLabel
    \/ DrawJunction
    \/ DrawNoConnect

SpecDraw == InitDraw /\ [][NextDraw]_vars

(***************************************************************************)
(* sexp/parser.rs: SexpIter.  The text is a sequence of one-byte           *)
(* characters, so the byte offset of a character is its place less one.    *)
(* One step reads one character, as one turn of the loops of next() does.  *)
(***************************************************************************)
MaxPieces == 3

\* the texts are put together from these pieces: an opened node, a whole
\* node, a closing parenthesis, a value, a blank, the strings "", "s\"t"
\* and "\\", and a lone quote
Pieces ==
    { <<"(", "a", " ">>, <<"(", "b", ")">>, <<")">>, <<"v">>, <<" ">>,
      <<"\"", "\"">>,
      <<"\"", "s", "\\", "\"", "t", "\"">>,
      <<"\"", "\\", "\\", "\"">>,
      <<"\"">> }

RECURSIVE TextsUpTo(_)
TextsUpTo(n) ==
    IF n = 0 THEN {<<>>}
    ELSE LET shorter == TextsUpTo(n - 1)
         IN  shorter \cup {t \o p : t \in shorter, p \in Pieces}

\* State::StartSymbol(name), State::Values(value), State::Text(value),
\* State::EndSymbol
Token(kind, val) == [kind |-> kind, val |-> val]

\* &self.content[from..to], offsets in bytes
Slice(from, to) == SubSeq(content, from + 1, to)

\* SexpParser::from(text).iter(): SexpIter::new
InitSexp ==
    /\ GeoStart /\ PtIdle /\ TrIdle /\ AtIdle /\ TxtIdle /\ BoxIdle
    /\ SeekIdle /\ DrawIdle
    /\ content \in TextsUpTo(MaxPieces)
    /\ chars = 1 /\ start_index = 0 /\ int_state = "NotStarted"
    /\ last_char = "" /\ tokens = <<>> /\ xpc = "idle"

\* next() returns Some(token)
ReturnToken(token, state, index) ==
    /\ tokens' = Append(tokens, token)
    /\ int_state' = state
    /\ start_index' = index
    /\ xpc' = "idle"

\* next() is called: a pending EndSymbol is returned at once
CallNext ==
    /\ xpc = "idle"
    /\ IF int_state = "BeforeEndSymbol"
       THEN /\ ReturnToken(Token("EndSymbol", <<>>), "Values", start_index)
            /\ UNCHANGED <<content, chars, last_char>>
       ELSE /\ xpc' = "next"
            /\ UNCHANGED <<content, chars, start_index, int_state, last_char, tokens>>
    /\ UNCHANGED <<netVars, ptVars, trVars, atVars, txtVars, boxVars, seekVars,
                   drawVars>>

\* one turn of `while let Some(indice) = self.chars.next()`, or the None
\* after it
StepChar ==
    /\ xpc = "next"
    /\ IF chars > Len(content)
       THEN /\ xpc' = "end"
            /\ UNCHANGED <<chars, start_index, int_state, last_char, tokens>>
       ELSE LET c == content[chars]
                idx == chars - 1
                Stay == UNCHANGED <<start_index, int_state, last_char, tokens, xpc>>
            IN  /\ chars' = chars + 1
                /\ CASE int_state = "NotStarted" ->
                          IF c = "("
                          THEN /\ start_index' = idx + 1
                               /\ int_state' = "Symbol"
                               /\ UNCHANGED <<last_char, tokens, xpc>>
                          ELSE Stay
                     [] int_state = "Symbol" ->
                          IF c \in {" ", "\n", ")"}
                          THEN /\ ReturnToken(Token("StartSymbol", Slice(start_index, idx)),
                                              IF c = ")" THEN "BeforeEndSymbol"
                                              ELSE "Values",
                                              idx + 1)
                               /\ UNCHANGED last_char
                          ELSE Stay
                     [] int_state = "Values" ->
                          IF c \in {" ", "\t", "\n", ")"}
                          THEN IF idx - start_index > 0
                               THEN /\ ReturnToken(Token("Values", Slice(start_index, idx)),
                                                   IF c = ")" THEN "BeforeEndSymbol"
                                                   ELSE "Values",
                                                   idx + 1)
                                    /\ UNCHANGED last_char
                               ELSE IF c = ")"
                               THEN /\ ReturnToken(Token("EndSymbol", <<>>), int_state,
                                                   idx + 1)
                                    /\ UNCHANGED last_char
                               ELSE /\ start_index' = idx + 1
                                    /\ UNCHANGED <<int_state, last_char, tokens, xpc>>
                          ELSE IF c = "("
                          THEN /\ start_index' = idx + 1
                               /\ int_state' = "Symbol"
                               /\ UNCHANGED <<last_char, tokens, xpc>>
                          ELSE IF c = "\""
                          THEN /\ last_char' = ""
                               /\ start_index' = idx + 1
                               /\ xpc' = "quote"
                               /\ UNCHANGED <<int_state, tokens>>
                          ELSE Stay
                     [] int_state = "BeforeEndSymbol" -> Stay
    /\ content' = content
    /\ UNCHANGED <<netVars, ptVars, trVars, atVars, txtVars, boxVars, seekVars,
                   drawVars>>

\* one turn of the `loop` over a quoted string with a character to read: a
\* quote not after a backslash ends the string
StepQuote ==
    /\ xpc = "quote"
    /\ chars <= Len(content)
    /\ LET ch == content[chars]
           idx == chars - 1
       IN  /\ chars' = chars + 1
           /\ IF ch = "\"" /\ last_char # "\\"
              THEN /\ ReturnToken(Token("Text", Slice(start_index, idx)), "Values",
                                  idx + 1)
                   /\ last_char' = ""
              ELSE /\ last_char' = ch
                   /\ UNCHANGED <<start_index, int_state, tokens, xpc>>
    /\ content' = content
    /\ UNCHANGED <<netVars, ptVars, trVars, atVars, txtVars, boxVars, seekVars,
                   drawVars>>

\* a turn of that `loop` with no character left: chars.next() is None, the
\* `if let` has no else, and the loop goes round for ever
QuoteSpin ==
    /\ xpc = "quote"
    /\ chars > Len(content)
    /\ xpc' = "spin"
    /\ UNCHANGED <<content, chars, start_index, int_state, last_char, tokens>>
    /\ UNCHANGED <<netVars, ptVars, trVars, atVars, txtVars, boxVars, seekVars,
                   drawVars>>

NextSexp ==
    \/ CallNext
    \/ StepChar
    \/ StepQuote
    \/ QuoteSpin

\* the caller goes on calling next(), and a call that can take a step does
SpecSexp == InitSexp /\ [][NextSexp]_vars /\ WF_vars(NextSexp)

(***************************************************************************)
(* Properties of netlist extraction (checked under SpecNet)                *)
(***************************************************************************)
Range(f) == {f[i] : i \in DOMAIN f}

Groups == 1..Len(node_positions)

\* the connection points merged into group g, and their coordinates
GroupNodes(g) == Range(node_positions[g].v)
GroupPts(g) == {node_positions[g].k} \cup {n.pt : n \in GroupNodes(g)}

\* every connection point collected from the schema
AllNodes == UNION {Range(positions[i].v) : i \in 1..Len(positions)}

SameGroup(n1, n2) == \E g \in Groups : n1 \in GroupNodes(g) /\ n2 \in GroupNodes(g)

\* Connectivity stated on the schema itself: the wires as undirected edges
\* between rendered coordinates, and the coordinates a set reaches along them.
WireEdges ==
    {<<FmtPt(schema.items[i].pts[1]), FmtPt(schema.items[i].pts[2])>> :
        i \in {j \in 1..Len(schema.items) : schema.items[j].type = "Wire"}}

RECURSIVE Reach(_)
Reach(S) ==
    LET step == S \cup {e[2] : e \in {d \in WireEdges : d[1] \in S}}
                  \cup {e[1] : e \in {d \in WireEdges : d[2] \in S}}
    IN  IF step = S THEN S ELSE Reach(step)

IsPowerPin(n) == n.kind = "Pin" /\ n.symbol.lib_id[1] = "power"
IsPlainPin(n) == n.kind = "Pin" /\ n.symbol.lib_id[1] # "power"
IsLabel(n) == n.kind \in {"Label", "GlobalLabel"}

\* C1: two connection points are in the same net group exactly when they
\* share a rounded coordinate or a path of wires joins their coordinates,
\* whatever the order of the items and the shape of the wire graph.
C1_PartitionByConnectivity ==
    npc = "done" =>
        \A n1 \in AllNodes :
            LET reached == Reach({FmtPt(n1.pt)})
                mates == UNION {GroupNodes(g) : g \in {h \in Groups : n1 \in GroupNodes(h)}}
            IN  \A n2 \in AllNodes : (n2 \in mates) <=> (FmtPt(n2.pt) \in reached)

\* a group joins two points that no single wire joins, and another group exists
C1_Witness ==
    /\ npc = "done"
    /\ Len(node_positions) >= 2
    /\ \E n1 \in AllNodes : \E n2 \in AllNodes :
          /\ SameGroup(n1, n2)
          /\ ~PtEq(n1.pt, n2.pt)
          /\ <<FmtPt(n1.pt), FmtPt(n2.pt)>> \notin WireEdges
          /\ <<FmtPt(n2.pt), FmtPt(n1.pt)>> \notin WireEdges

\* C2: after Netlist::from, any two coordinates of one merged group have a
\* net name, and the same one.
C2_GroupSharesName ==
    npc = "done" =>
        \A g \in Groups : \A a \in GroupPts(g) : \A b \in GroupPts(g) :
            /\ netname(names, a) # None
            /\ netname(names, a) = netname(names, b)

C2_Witness ==
    /\ npc = "done"
    /\ \E g \in Groups : \E a \in GroupPts(g) : \E b \in GroupPts(g) :
          /\ ~PtEq(a, b)
          /\ netname(names, a) # None
          /\ netname(names, a) = netname(names, b)

\* C3: a group holding a pin of a "power:" symbol is named by that symbol's
\* Value, whatever else the group holds and in whatever order.
C3_PowerValueNamesGroup ==
    npc = "done" =>
        \A g \in Groups :
            (\E n \in GroupNodes(g) : IsPowerPin(n)) =>
                \A a \in GroupPts(g) :
                    \E n \in GroupNodes(g) :
                        /\ IsPowerPin(n)
                        /\ netname(names, a) = Some(Property(n.symbol, "Value"))

\* C4: a group without a power pin but with a local or global label is named
\* by a label's text, not by a name made from its pins.
C4_LabelNamesGroup ==
    npc = "done" =>
        \A g \in Groups :
            ((\E n \in GroupNodes(g) : IsLabel(n))
                /\ ~(\E n \in GroupNodes(g) : IsPowerPin(n))) =>
                \A a \in GroupPts(g) :
                    \E n \in GroupNodes(g) :
                        /\ IsLabel(n)
                        /\ netname(names, a) = Some(n.label.text)

\* a labelled group that also has an ordinary pin
C4_Witness ==
    /\ npc = "done"
    /\ \E g \in Groups :
          /\ \E n \in GroupNodes(g) : IsLabel(n)
          /\ \E n \in GroupNodes(g) : IsPlainPin(n)
          /\ ~(\E n \in GroupNodes(g) : IsPowerPin(n))

\* "{reference}_{pin_number}"
Segment(n) == (Property(n.symbol, "Reference") \o "_") \o n.pin.number

RECURSIVE FirstOccurrences(_, _)
\* the ordinary pins of a node list, each once, in order of first encounter
FirstOccurrences(nodes, seen) ==
    IF nodes = <<>> THEN <<>>
    ELSE IF IsPlainPin(Head(nodes)) /\ Head(nodes) \notin seen
         THEN <<Head(nodes)>> \o FirstOccurrences(Tail(nodes), seen \cup {Head(nodes)})
         ELSE FirstOccurrences(Tail(nodes), seen)

RECURSIVE JoinSegments(_)
JoinSegments(pins) ==
    IF pins = <<>> THEN ""
    ELSE IF Len(pins) = 1 THEN Segment(pins[1])
    ELSE (Segment(Head(pins)) \o "__") \o JoinSegments(Tail(pins))

\* C5: a group with neither power pin nor label is named by the segments
\* "{reference}_{pin_number}" of its member pins in encounter order, joined
\* by "__", one segment for each member pin, for every wire topology.
C5_OneSegmentPerPin ==
    npc = "done" =>
        \A g \in Groups :
            (~\E n \in GroupNodes(g) : IsPowerPin(n) \/ IsLabel(n)) =>
                \A a \in GroupPts(g) :
                    netname(names, a) =
                        Some(JoinSegments(FirstOccurrences(node_positions[g].v, {})))

\* C7: for every Wire with ends a and b the adjacency map lists b among the
\* neighbours of a and a among the neighbours of b, under the rounded keys.
C7_WireAdjacencySymmetric ==
    npc = "done" =>
        \A i \in 1..Len(schema.items) :
            schema.items[i].type = "Wire" =>
                LET a == schema.items[i].pts[1]
                    b == schema.items[i].pts[2]
                IN  /\ MapGet(wires, a) # None
                    /\ Contains(MapGet(wires, a)[1], b)
                    /\ MapGet(wires, b) # None
                    /\ Contains(MapGet(wires, b)[1], a)

\* a wire end that two wires reach under two different raw coordinates
C7_Witness ==
    /\ npc = "done"
    /\ \E i \in 1..Len(wires) :
          \E j \in 1..Len(schema.items) : \E k \in 1..Len(schema.items) :
              /\ schema.items[j].type = "Wire"
              /\ schema.items[k].type = "Wire"
              /\ schema.items[j].pts[2] # schema.items[k].pts[1]
              /\ PtEq(schema.items[j].pts[2], wires[i].k)
              /\ PtEq(schema.items[k].pts[1], wires[i].k)
              /\ Len(wires[i].v) >= 2

(***************************************************************************)
(* Properties of Pt (checked under SpecPt)                                 *)
(***************************************************************************)

\* v rounded to hundredths, as a signed count of hundredths
Hundredths(v) == (Abs(v) + 5) \div 10

\* both coordinates of a and b are on the same side of zero and round to
\* the same hundredth
SameCell(a, b) ==
    \A i \in 1..2 : (a[i] < 0) = (b[i] < 0) /\ Hundredths(a[i]) = Hundredths(b[i])

\* C8 as stated: points less than 0.005 apart on both axes are equal and
\* hash alike.
C8_CloseImpliesEqual ==
    ptres # None =>
        ((Abs(pa[1] - pb[1]) < 5 /\ Abs(pa[2] - pb[2]) < 5) =>
            (ptres[1].eq /\ ptres[1].ha = ptres[1].hb))

\* C8, amended: points whose coordinates have the same sign and round to the
\* same two decimals are equal, and equal points always hash alike.
C8_SameCellImpliesEqual ==
    ptres # None =>
        /\ SameCell(pa, pb) => ptres[1].eq
        /\ ptres[1].eq => ptres[1].ha = ptres[1].hb

\* two different raw points that compare equal
C8_Witness ==
    /\ ptres # None
    /\ pa # pb
    /\ SameCell(pa, pb)
    /\ ptres[1].eq
    /\ ptres[1].ha = ptres[1].hb

(***************************************************************************)
(* Properties of Transform (checked under SpecTr)                          *)
(***************************************************************************)
CallsOf(op) == {i \in 1..Len(calls) : calls[i].op = op}
LastOf(op) == calls[CHOOSE i \in CallsOf(op) : \A j \in CallsOf(op) : j <= i]

\* what the builder calls configured: the last value given to each method
CfgAngle == IF CallsOf("rotation") = {} THEN 0 ELSE LastOf("rotation").angle
CfgAxis == IF CallsOf("mirror") = {} THEN None ELSE LastOf("mirror").axis
CfgOffset == IF CallsOf("translation") = {} THEN <<0, 0>> ELSE LastOf("translation").pt
CfgScale == IF CallsOf("scale") = {} THEN None ELSE Some(LastOf("scale").scale)

\* the mirror step as a map on points
Mirrored(p, axis) ==
    CASE axis = None -> <<p[1], -p[2]>>
      [] axis = Some("x") -> <<p[1], p[2]>>
      [] axis = Some("y") -> <<-p[1], -p[2]>>
      [] axis = Some("xy") -> <<-p[1], p[2]>>

\* C9: without rotation and scale, (x, y) goes to M(x, y) + t, with t the
\* configured translation and M chosen by the mirror axis: none (x, -y),
\* "x" (x, y), "y" (-x, -y), "xy" (-x, y).
C9_MirrorThenTranslate ==
    (tout # None /\ CfgAngle = 0 /\ CfgScale = None) =>
        tout[1] = <<Mirrored(tin, CfgAxis)[1] + CfgOffset[1],
                    Mirrored(tin, CfgAxis)[2] + CfgOffset[2]>>

\* a mirrored and translated point, no rotation, no scale
C9_Witness ==
    /\ tout # None
    /\ CfgAngle = 0 /\ CfgScale = None
    /\ CfgAxis = Some("y")
    /\ CfgOffset = <<2000, 2000>>
    /\ tin = <<0, 5000>>
    /\ tout = Some(<<2000, -3000>>)

\* the scale step, diag(s, -s)
Scaled(p, sc) == IF sc = None THEN p ELSE <<sc[1] * p[1], -(sc[1] * p[2])>>

\* the rotation step of transform(), for the four right angles
Rotated(p, angle) ==
    CASE angle = 0 -> p
      [] angle = 90 -> <<p[2], -p[1]>>
      [] angle = 180 -> <<-p[1], -p[2]>>
      [] angle = 270 -> <<-p[2], p[1]>>

\* C10: whatever the order of the builder calls, the point is scaled, then
\* mirrored, then rotated, then translated, by the configured values; so
\* equal configurations reached in different call orders map alike.
C10_FixedPipeline ==
    tout # None =>
        LET r == Rotated(Mirrored(Scaled(tin, CfgScale), CfgAxis), CfgAngle)
        IN  tout[1] = <<r[1] + CfgOffset[1], r[2] + CfgOffset[2]>>

\* translation, rotation, mirror (the order of the symbol outline) with a
\* quarter turn and a mirror that do not commute
C10_Witness ==
    /\ tout # None
    /\ Len(calls) = 3
    /\ calls[1].op = "translation"
    /\ calls[2].op = "rotation" /\ calls[2].angle = 90
    /\ calls[3].op = "mirror" /\ calls[3].axis = Some("x")
    /\ tin = <<2000, 3000>>


\* the counter-clockwise quarter turns: (x, y) to (x cos - y sin, x sin + y cos)
CounterClockwise(p, angle) ==
    <<p[1] * Cos(angle) - p[2] * Sin(angle), p[1] * Sin(angle) + p[2] * Cos(angle)>>

\* C11: the rotation step maps the mirrored point (x, y) to
\* (x cos a - y sin a, x sin a + y cos a) for a in {0, 90, 180, 270}, so a
\* quarter turn sends (1, 0) to (0, 1).
C11_RotationCounterClockwise ==
    tout # None =>
        LET r == CounterClockwise(Mirrored(Scaled(tin, CfgScale), CfgAxis), CfgAngle)
        IN  tout[1] = <<r[1] + CfgOffset[1], r[2] + CfgOffset[2]>>


(***************************************************************************)
(* Properties of the position resolver (checked under SpecAt)              *)
(***************************************************************************)

\* a local point of a library symbol under the placement of a symbol:
\* mirrored, turned by the symbol's angle, moved to the symbol's position
PlacedAt(symbol, p) ==
    LET r == Rotated(Mirrored(p, symbol.mirror), symbol.pos.angle)
    IN  <<symbol.pos.x + r[1], symbol.pos.y + r[2]>>

Symbols == {i \in 1..Len(schema.items) : schema.items[i].type = "Symbol"}

Libraries(lib_id) == {l \in Range(schema.library_symbols) : l.lib_id = lib_id}

\* the placed symbols named `reference` with, for each, the pins numbered
\* `number` that the library holds in the sub-unit the symbol places
Owners(reference, number) ==
    {o \in Symbols \X UNION {Range(u.pins) : u \in UNION {Range(l.units) :
                                  l \in Range(schema.library_symbols)}} :
        /\ Property(schema.items[o[1]], "Reference") = reference
        /\ o[2].number = number
        /\ \E l \in Libraries(schema.items[o[1]].lib_id) : \E u \in Range(l.units) :
              u.unit = schema.items[o[1]].unit /\ o[2] \in Range(u.pins)}

\* C12: At::Pt(p) resolves to p; At::Pin(reference, number) resolves to the
\* local position of that pin under the placement (mirror, angle, position)
\* of the placed unit of `reference` that owns the pin, and it does resolve
\* when such a unit is placed.  Unmirrored and unturned, (px, py) of a symbol
\* at (sx, sy) is (sx + px, sy - py).
C12_PinUnderPlacement ==
    resolved # None =>
        /\ at.kind = "Pt" => resolved[1] = Returned(at.pt)
        /\ (at.kind = "Pin" /\ resolved[1].res = "value") =>
              \E o \in Owners(at.reference, at.pin) :
                  resolved[1].val = PlacedAt(schema.items[o[1]], PosToPt(o[2].pos))
        /\ (at.kind = "Pin" /\ Owners(at.reference, at.pin) # {}) =>
              resolved[1].res = "value"

\* pin 7 of U1 resolved on its second unit, which is mirrored and turned,
\* while the first unit of U1 is placed as well
C12_Witness ==
    /\ resolved # None
    /\ at = AtPin("U1", "7")
    /\ resolved[1] = Returned(<<70000, 42380>>)
    /\ \E i \in Symbols : \E j \in Symbols :
          /\ i < j
          /\ Property(schema.items[i], "Reference") = "U1" /\ schema.items[i].unit = 1
          /\ Property(schema.items[j], "Reference") = "U1" /\ schema.items[j].unit = 2

\* some placed symbol named `reference` has a library symbol with that pin
Exposes(reference, number) ==
    \E i \in Symbols :
        /\ Property(schema.items[i], "Reference") = reference
        /\ \E l \in Libraries(schema.items[i].lib_id) : \E u \in Range(l.units) :
              \E q \in Range(u.pins) : q.number = number

\* C13: a reference to something that does not exist makes the resolver
\* return an error value, never abort: PinUnitNotFound when no placed unit of
\* the reference exposes the pin, otherwise SymbolNotFound, LibraryNotFound
\* or PinNotFound.
C13_ErrorsReturned ==
    (resolved # None /\ at.kind = "Pin") =>
        /\ resolved[1].res # "panic"
        /\ ~Exposes(at.reference, at.pin) => resolved[1] = Err("PinUnitNotFound")
        /\ (Exposes(at.reference, at.pin) /\ Owners(at.reference, at.pin) = {}) =>
              /\ resolved[1].res = "Err"
              /\ resolved[1].err \in {"SymbolNotFound", "LibraryNotFound", "PinNotFound"}

\* C14: every pin that extraction records for a placed symbol (a pin of the
\* library sub-units numbered 0 or the placed unit) is recorded at the point
\* At::Pin(reference, number) resolves to.
C14_ExtractionAgreesWithResolver ==
    (npc = "done" /\ resolved # None /\ at.kind = "Pin") =>
        \A n \in AllNodes :
            (n.kind = "Pin" /\ Property(n.symbol, "Reference") = at.reference
                /\ n.pin.number = at.pin) =>
                resolved[1] = Returned(n.pt)


(***************************************************************************)
(* Properties of the text outline (checked under SpecText)                 *)
(***************************************************************************)
SupportedAngles == {0, 90, 180, 270}

\* the font of the text is the built-in one or an installed, readable one
Measurable == txt.effects.face \in {None, Some("Arial")}

\* C15 as stated: for 0, 90, 180 and 270 degrees a Rect is returned for every
\* justification set; for any other angle the call panics and returns
\* neither a Rect nor an error value.
C15_RightAnglesOrPanic ==
    trect # None =>
        IF txt.pos.angle \in SupportedAngles
        THEN trect[1].res = "Ok"
        ELSE trect[1].res = "panic"

\* C15, amended: the same for every text whose font can be measured; a text
\* whose font cannot be loaded yields the font's failure at any angle (the
\* font error returned, or the abort on an unreadable font file).
C15_MeasuredRightAnglesOrPanic ==
    trect # None =>
        /\ Measurable =>
              IF txt.pos.angle \in SupportedAngles
              THEN trect[1].res = "Ok"
              ELSE trect[1].res = "panic"
        /\ txt.effects.face = Some("NoSuchFont") => trect[1] = Err("font-error")
        /\ txt.effects.face = Some("Broken") => trect[1].res = "panic"

\* a measurable text at 45 degrees, and the call has panicked
C15_Witness ==
    /\ trect # None
    /\ Measurable
    /\ txt.pos.angle = 45
    /\ txt.text = "OUT"
    /\ trect[1] = Panic("unsupported angle")

\* C16: on each axis, without a justification flag for the axis the box is
\* centred on the anchor (start + end = 2 pos); with a flag one edge of the
\* box lies on the anchor.
C16_CentredOrFlush ==
    (trect # None /\ trect[1].res = "Ok") =>
        LET r == trect[1].val
            j == txt.effects.justify
        IN  /\ IF j \cap {"Left", "Right"} = {}
               THEN r.start[1] + r.end[1] = 2 * txt.pos.x
               ELSE r.start[1] = txt.pos.x \/ r.end[1] = txt.pos.x
            /\ IF j \cap {"Top", "Bottom"} = {}
               THEN r.start[2] + r.end[2] = 2 * txt.pos.y
               ELSE r.start[2] = txt.pos.y \/ r.end[2] = txt.pos.y

\* C17: the Rect returned is ordered and as wide and as high as the text was
\* measured, also at 180 degrees where the rotated width is negative.
C17_OrderedRect ==
    (trect # None /\ trect[1].res = "Ok") =>
        LET r == trect[1].val
            measured == dimension(txt.text, txt.effects).val
        IN  /\ r.start[1] <= r.end[1]
            /\ r.start[2] <= r.end[2]
            /\ r.end[1] - r.start[1] = Abs(measured[1])
            /\ r.end[2] - r.start[2] = Abs(measured[2])

\* a text of positive width at 180 degrees, right-justified
C17_Witness ==
    /\ trect # None /\ trect[1].res = "Ok"
    /\ txt.pos.angle = 180
    /\ txt.text = "OUT"
    /\ "Right" \in txt.effects.justify
    /\ trect[1].val.start[1] < trect[1].val.end[1]
    /\ trect[1].val.end[1] = txt.pos.x


(***************************************************************************)
(* Properties of the outlines (checked under SpecBox)                      *)
(***************************************************************************)
SetMin(S) == CHOOSE x \in S : \A y \in S : x <= y
SetMax(S) == CHOOSE x \in S : \A y \in S : x >= y

\* the points of a primitive that count for an outline: the corners of a
\* rectangle, the points of a line, the two extreme corners of a circle
PrimitivePoints(g) ==
    CASE g.type = "Rectangle" -> {g.start, g.end}
      [] g.type \in {"Line", "Polyline"} -> Range(g.pts)
      [] g.type = "Circle" -> {<<g.center[1] - g.radius, g.center[2] - g.radius>>,
                               <<g.center[1] + g.radius, g.center[2] + g.radius>>}
      [] OTHER -> {}

\* the local points (graphics and pin positions) of the sub-units of the
\* library symbol of `symbol` whose unit is in `units`
LocalPoints(symbol, units) ==
    UNION {UNION {PrimitivePoints(g) : g \in Range(u.graphics)}
                \cup {PosToPt(q.pos) : q \in Range(u.pins)} :
           u \in {v \in UNION {Range(l.units) : l \in Libraries(symbol.lib_id)} :
                     v.unit \in units}}

ActivePoints(symbol) ==
    {PlacedAt(symbol, q) : q \in LocalPoints(symbol, {0, symbol.unit})}

Inside(p, r) ==
    /\ r.start[1] <= p[1] /\ p[1] <= r.end[1]
    /\ r.start[2] <= p[2] /\ p[2] <= r.end[2]

\* C18: the outline of a placed symbol is the least and the greatest
\* coordinate, per axis, over the placed points of the graphics and pins of
\* the library sub-units numbered 0 or the placed unit, and of no other unit;
\* every pin of the active unit lies inside it.
C18_SymbolOutlineOfActiveUnit ==
    (outl # None /\ outl[1].of > 0 /\ outl[1].r.res = "Ok") =>
        LET symbol == schema.items[outl[1].of]
            pts == ActivePoints(symbol)
            r == outl[1].r.val
        IN  /\ pts # {}
            /\ r.start = <<SetMin({q[1] : q \in pts}), SetMin({q[2] : q \in pts})>>
            /\ r.end = <<SetMax({q[1] : q \in pts}), SetMax({q[2] : q \in pts})>>
            /\ \A l \in Libraries(symbol.lib_id) : \A u \in Range(l.units) :
                  u.unit \in {0, symbol.unit} =>
                      \A q \in Range(u.pins) : Inside(PlacedAt(symbol, PosToPt(q.pos)), r)

\* the outline of a turned, mirrored unit while graphics of another unit of
\* its library symbol would reach outside that outline
C18_Witness ==
    /\ outl # None /\ outl[1].of > 0 /\ outl[1].r.res = "Ok"
    /\ LET symbol == schema.items[outl[1].of]
       IN  /\ symbol.pos.angle = 90 /\ symbol.mirror = Some("x")
           /\ \E q \in LocalPoints(symbol, {1, 2, 3} \ {symbol.unit}) :
                 ~Inside(PlacedAt(symbol, q), outl[1].r.val)

\* the items Schema::outline has an outline rule for
Outlined ==
    {i \in 1..Len(schema.items) :
        schema.items[i].type \in {"Junction", "NoConnect", "Wire", "LocalLabel",
                                  "GlobalLabel", "Text", "Symbol"}}

\* C19: the outline of the schema is an ordered Rect that holds both corners
\* of the outline of every junction, no-connect, wire, label, text and
\* symbol of the schema and of every visible property of a symbol.
C19_SchemaOutlineHoldsEveryItem ==
    (outl # None /\ outl[1].of = 0 /\ outl[1].r.res = "Ok") =>
        LET r == outl[1].r.val
        IN  /\ r.start[1] <= r.end[1] /\ r.start[2] <= r.end[2]
            /\ \A i \in Outlined :
                  LET b == outline(schema.items[i], schema)
                  IN  b.res = "Ok" => Inside(b.val.start, r) /\ Inside(b.val.end, r)
            /\ \A i \in Symbols : \A k \in 1..Len(schema.items[i].props) :
                  LET prop == schema.items[i].props[k]
                      b == property_outline(prop, schema)
                  IN  (visible(prop) /\ b.res = "Ok") =>
                          Inside(b.val.start, r) /\ Inside(b.val.end, r)


(***************************************************************************)
(* Properties of the named coordinates (checked under SpecNetItems)        *)
(***************************************************************************)

\* where the pins of the active unit of a placed symbol lie
PinPoints(symbol) ==
    {PlacedAt(symbol, PosToPt(q.pos)) :
        q \in UNION {Range(u.pins) :
                 u \in {v \in UNION {Range(l.units) : l \in Libraries(symbol.lib_id)} :
                           v.unit \in {0, symbol.unit}}}}

Excluded == {i \in Symbols : schema.items[i].lib_id[1] = "Mechanical"}

\* the connection points of the schema
ConnectionPoints ==
    UNION {PinPoints(schema.items[i]) : i \in Symbols \ Excluded}
    \cup {PosToPt(schema.items[i].pos) :
             i \in {j \in 1..Len(schema.items) :
                       schema.items[j].type \in {"Junction", "NoConnect",
                                                 "LocalLabel", "GlobalLabel"}}}

\* every coordinate the schema mentions, and every key of the name map
Mentioned ==
    ConnectionPoints
    \cup UNION {PinPoints(schema.items[i]) : i \in Excluded}
    \cup UNION {Range(schema.items[i].pts) :
                   i \in {j \in 1..Len(schema.items) : schema.items[j].type = "Wire"}}
    \cup {PosToPt(schema.items[i].pos) :
             i \in {j \in 1..Len(schema.items) : schema.items[j].type # "Wire"}}
    \cup {names[i].k : i \in 1..Len(names)}

\* C20: a coordinate has a net name exactly when it is, rounded, the position
\* of an active-unit pin of a placed symbol outside "Mechanical:", or of a
\* junction, no-connect, local or global label; no pin of an excluded symbol
\* is a member of any group.
C20_NamedExactlyConnectionPoints ==
    npc = "done" =>
        /\ \A pt \in Mentioned :
              (netname(names, pt) # None) <=> (\E c \in ConnectionPoints : PtEq(c, pt))
        /\ \A n \in AllNodes \cup UNION {GroupNodes(g) : g \in Groups} :
              ~(n.kind = "Pin" /\ n.symbol.lib_id[1] = "Mechanical")

\* a wire leads from a named pin to the pin of a placed pad, which has no name
C20_Witness ==
    /\ npc = "done"
    /\ \E i \in Excluded : \E pt \in PinPoints(schema.items[i]) :
          /\ netname(names, pt) = None
          /\ \E e \in WireEdges :
                /\ FmtPt(pt) \in {e[1], e[2]}
                /\ \E c \in ConnectionPoints :
                      FmtPt(c) \in {e[1], e[2]} /\ netname(names, c) # None

(***************************************************************************)
(* Naming of small groups and of schemas with unresolved symbols          *)
(***************************************************************************)

\* C21: a net group that consists of a single connection element is named
\* "NC" at every coordinate of the group.
C21_SingleElementNamedNC ==
    npc = "done" =>
        \A g \in Groups :
            Len(node_positions[g].v) = 1 =>
                \A a \in GroupPts(g) : netname(names, a) = Some("NC")

\* the placed symbols outside "Mechanical:" whose lib_id names no library symbol
Unresolved ==
    {i \in 1..Len(schema.items) :
        /\ schema.items[i].type = "Symbol"
        /\ ~StartsWith(schema.items[i].lib_id, "Mechanical")
        /\ LibrarySymbol(schema, schema.items[i].lib_id) = None}

\* C22: when a placed symbol that is not excluded refers to a lib_id the
\* schema holds no library symbol for, Netlist::from returns an error: it
\* never returns Ok(Netlist), which is what npc = "done" records.
C22_MissingLibraryIsAnError == npc = "done" => Unresolved = {}

\* C30: every net name recorded by Netlist::from is a non-empty string.
C30_NamesNonEmpty ==
    npc = "done" => \A i \in 1..Len(names) : netname(names, names[i].k) # Some("")

(***************************************************************************)
(* Termination of Netlist::from (checked under SpecSeek)                   *)
(***************************************************************************)

\* the loop over positions is over: no seek_wire call is open, none is left
TraversalOver ==
    \/ npc = "done"
    \/ npc = "seek" /\ from_stack = <<>> /\ from_pos > Len(positions)

\* C23: Netlist::from terminates on every finite schema: once it is called,
\* the wire traversal (seek_wire / get_wire with the shared visited list)
\* finishes for every wire graph, with cycles, duplicate parallel wires and
\* wires of length zero, and the recursion of seek_wire stays below MaxDepth.
C23_FromTerminates ==
    /\ (npc = "seek") ~> TraversalOver
    /\ [](Len(from_stack) < MaxDepth)

\* the traversal has finished on a graph with a wire of length zero, two
\* parallel wires closing a cycle and a connected connection point, with the
\* groups Netlist::from computes
C23_Witness ==
    /\ npc = "done"
    /\ \E i \in 1..Len(schema.items) :
          schema.items[i].type = "Wire" /\ schema.items[i].pts[1] = schema.items[i].pts[2]
    /\ \E i \in 1..Len(schema.items) : \E j \in 1..Len(schema.items) :
          /\ i # j /\ schema.items[i].type = "Wire"
          /\ schema.items[i] = schema.items[j]
          /\ schema.items[i].pts[1] # schema.items[i].pts[2]
    /\ from_found # <<>>
    /\ node_positions = FinalPositions(positions, wires)


(***************************************************************************)
(* Properties of the drawers (checked under SpecDraw)                      *)
(***************************************************************************)

\* the last call and the item it pushed
LastDrawn == drawn[Len(drawn)]
Pushed == schema.items[Len(schema.items)]

\* C24: whenever draw(Symbol) returns the error 'anchor pin not found', the
\* schema afterwards is the schema before the call: the same items, the same
\* library symbols, the same cursor.
C24_FailedPlacementKeepsSchema ==
    drawn # <<>> /\ LastDrawn.op = "Symbol" /\ LastDrawn.res = "Err"
        => Current = before_draw


\* a call that drew a wire from the cursor: a Wire without an At attribute
CursorWire(e) ==
    e.op = "Wire" /\ e.res = "Ok" /\ AttrOf(e.input, "At") = None

\* C25: a Wire drawn without an At attribute starts at the cursor the call
\* before it left, the cursor after the draw is the end point of the wire,
\* and of two such wires drawn one after the other the second starts where
\* the first ends.
C25_WireFollowsCursor ==
    drawn # <<>> /\ CursorWire(LastDrawn)
        => /\ Pushed.pts[1] = get_pt(before_draw, before_draw.last_pos).val
           /\ last_pos = AtPt(Pushed.pts[2])
           /\ Len(drawn) > 1 /\ CursorWire(drawn[Len(drawn) - 1])
                 => schema.items[Len(schema.items) - 1].pts[2] = Pushed.pts[1]

\* two wires from the cursor, the second not from the origin and not back
\* onto the first
C25_Witness ==
    /\ Len(drawn) = 2 /\ CursorWire(drawn[1]) /\ CursorWire(drawn[2])
    /\ Len(schema.items) = 2
    /\ direction(drawn[1].input) = "Left" /\ direction(drawn[2].input) = "Up"
    /\ schema.items[1].pts[2] = schema.items[2].pts[1]
    /\ Pushed.pts[1] # <<0, 0>>
    /\ last_pos = AtPt(Pushed.pts[2])

\* C26: after a draw(Symbol) without a Tox attribute has succeeded, the
\* anchor pin of the placed symbol (the Anchor attribute, else pin "1") is
\* on the placement point: the resolved At attribute if there is one, else
\* the cursor before the call.
C26_AnchorPinOnPlacementPoint ==
    drawn # <<>> /\ LastDrawn.op = "Symbol" /\ LastDrawn.res = "Ok"
    /\ AttrOf(LastDrawn.input.attrs, "Tox") = None
        => LET attrs == LastDrawn.input.attrs
               anchor == IF AttrOf(attrs, "Anchor") = None THEN "1"
                         ELSE AttrOf(attrs, "Anchor")[1]
               point == IF AttrOf(attrs, "At") # None
                        THEN get_pt(before_draw, AttrOf(attrs, "At")[1]).val
                        ELSE get_pt(before_draw, before_draw.last_pos).val
               lib == LibrarySymbol(Current, Pushed.lib_id)[1]
           IN  /\ Pushed.type = "Symbol"
               /\ pin_position(Pushed, lib_pin(lib, anchor)[1]) = point

\* a resistor, turned and mirrored, placed with its pin 1 on a cursor that
\* is not the origin; the symbol's own position is elsewhere
C26_Witness ==
    /\ Len(drawn) = 2 /\ drawn[1].op = "move_to"
    /\ LastDrawn.op = "Symbol" /\ LastDrawn.res = "Ok"
    /\ AttrOf(LastDrawn.input.attrs, "Rotate") = Some(270)
    /\ AttrOf(LastDrawn.input.attrs, "Mirror") = Some("xy")
    /\ AttrOf(LastDrawn.input.attrs, "Tox") = None
    /\ before_draw.last_pos = AtPt(<<50800, 50800>>)
    /\ Pushed.type = "Symbol"
    /\ <<Pushed.pos.x, Pushed.pos.y>> # <<50800, 50800>>
    /\ pin_position(Pushed, lib_pin(LibrarySymbol(Current, Pushed.lib_id)[1], "1")[1])
           = <<50800, 50800>>

\* C27: the end of a drawn wire is (x of the Tox target, y of the start) if
\* there is a Tox attribute; else (x of the start, y of the Toy target) if
\* there is a Toy attribute; else the start moved by Length (2.54 if there
\* is none) to the Direction (Left if there is none; Up is towards smaller
\* y).  So the wire is horizontal or vertical.
C27_WireEndByPrecedence ==
    drawn # <<>> /\ LastDrawn.op = "Wire" /\ LastDrawn.res = "Ok"
        => LET attrs == LastDrawn.input
               start == Pushed.pts[1]
               end == Pushed.pts[2]
               tox == AttrOf(attrs, "Tox")
               toy == AttrOf(attrs, "Toy")
               len == IF AttrOf(attrs, "Length") = None THEN 2540
                      ELSE AttrOf(attrs, "Length")[1]
               dir == IF AttrOf(attrs, "Direction") = None THEN "Left"
                      ELSE AttrOf(attrs, "Direction")[1]
           IN  /\ tox # None
                    => end = <<get_pt(before_draw, tox[1]).val[1], start[2]>>
               /\ tox = None /\ toy # None
                    => end = <<start[1], get_pt(before_draw, toy[1]).val[2]>>
               /\ tox = None /\ toy = None
                    => /\ dir = "Left" => end = <<start[1] - len, start[2]>>
                       /\ dir = "Right" => end = <<start[1] + len, start[2]>>
                       /\ dir = "Up" => end = <<start[1], start[2] - len>>
                       /\ dir = "Down" => end = <<start[1], start[2] + len>>
               /\ end[1] = start[1] \/ end[2] = start[2]

\* a wire with a Toy, a Direction, a Length and a Tox attribute, drawn from
\* a cursor that is not the origin: it ends on the x of the Tox target
C27_Witness ==
    /\ Len(drawn) = 2 /\ LastDrawn.op = "Wire" /\ LastDrawn.res = "Ok"
    /\ AttrOf(LastDrawn.input, "Tox") = Some(AtPt(<<70000, 60000>>))
    /\ AttrOf(LastDrawn.input, "Toy") # None
    /\ AttrOf(LastDrawn.input, "Length") # None
    /\ Pushed.pts[1] = <<50800, 50800>>
    /\ Pushed.pts[2] = <<70000, 50800>>


(***************************************************************************)
(* Properties of SexpIter (checked under SpecSexp)                         *)
(***************************************************************************)

RECURSIVE Scan(_, _, _, _)
\* Reading a text as an S-expression, from place i on: in a quoted string a
\* backslash takes the next character with it, and the string ends at the
\* first quote that is not taken so.  acc collects the depth, the strings
\* read, the string being read, and whether the text is in order so far:
\* no parenthesis closes what is not open, the root is not closed before
\* the end, and a parenthesis or a string opens only after a blank.
Scan(str, i, mode, acc) ==
    IF i > Len(str) THEN [acc EXCEPT !.ok = @ /\ mode = "out" /\ acc.depth = 0]
    ELSE LET c == str[i]
             blank == i > 1 /\ str[i - 1] \in {" ", "\t", "\n"}
         IN  CASE mode = "str" /\ c = "\\" ->
                    Scan(str, i + 1, "esc", [acc EXCEPT !.cur = Append(@, c)])
               [] mode = "str" /\ c = "\"" ->
                    Scan(str, i + 1, "out",
                         [acc EXCEPT !.strings = Append(@, acc.cur), !.cur = <<>>])
               [] mode = "str" /\ c \notin {"\\", "\""} ->
                    Scan(str, i + 1, "str", [acc EXCEPT !.cur = Append(@, c)])
               [] mode = "esc" ->
                    Scan(str, i + 1, "str", [acc EXCEPT !.cur = Append(@, c)])
               [] mode = "out" /\ c = "(" ->
                    Scan(str, i + 1, "out",
                         [acc EXCEPT !.depth = @ + 1,
                                     !.ok = @ /\ (IF i = 1 THEN TRUE
                                                  ELSE blank /\ acc.depth > 0)])
               [] mode = "out" /\ c = ")" ->
                    Scan(str, i + 1, "out",
                         [acc EXCEPT !.depth = @ - 1,
                                     !.ok = @ /\ acc.depth > 0])
               [] mode = "out" /\ c = "\"" ->
                    Scan(str, i + 1, "str",
                         [acc EXCEPT !.ok = @ /\ blank /\ acc.depth > 0])
               [] mode = "out" /\ c \notin {"(", ")", "\""} ->
                    Scan(str, i + 1, "out", [acc EXCEPT !.ok = @ /\ acc.depth > 0])

Scanned(str) ==
    Scan(str, 1, "out", [depth |-> 0, strings |-> <<>>, cur |-> <<>>, ok |-> TRUE])

\* a well-formed text: one root node from the first character to the last,
\* parentheses balanced, strings closed, names and values apart
WellFormed(str) == str # <<>> /\ str[1] = "(" /\ Scanned(str).ok

\* how many of the tokens are of that kind
CountOf(toks, kind) == Cardinality({k \in DOMAIN toks : toks[k].kind = kind})

\* the values of the Text tokens, in order
TextsOf(toks) ==
    LET texts == SelectSeq(toks, LAMBDA t : t.kind = "Text")
    IN  [k \in DOMAIN texts |-> texts[k].val]

IsPrefix(s, t) == Len(s) <= Len(t) /\ s = SubSeq(t, 1, Len(s))

\* C28: on a well-formed text the tokens of SexpIter are properly nested:
\* no EndSymbol comes without an open StartSymbol, every quoted string is
\* returned as one Text token, next() always returns, and when it returns
\* None the last token is the EndSymbol of the root and there is one
\* EndSymbol for each StartSymbol.
C28_WellFormedTextIsNested ==
    WellFormed(content)
        => /\ xpc # "spin"
           /\ \A k \in DOMAIN tokens :
                 CountOf(SubSeq(tokens, 1, k), "EndSymbol")
                     <= CountOf(SubSeq(tokens, 1, k), "StartSymbol")
           /\ IsPrefix(TextsOf(tokens), Scanned(content).strings)
           /\ xpc = "end"
                 => /\ tokens # <<>> /\ tokens[Len(tokens)].kind = "EndSymbol"
                    /\ CountOf(tokens, "EndSymbol") = CountOf(tokens, "StartSymbol")
                    /\ TextsOf(tokens) = Scanned(content).strings

\* C29: every call of next() returns, whatever the text, and after finitely
\* many calls next() returns None.
C29_NextTerminates ==
    /\ (xpc \in {"next", "quote"}) ~> (xpc \in {"idle", "end"})
    /\ <>(xpc = "end")

=============================================================================
